---- MODULE Spec2Model ----
(***************************************************************************)
(* MarketLens: review queue, review worker, merge/edge applier.            *)
(*                                                                         *)
(* The worker, the appliers and the domain rules are translated from       *)
(* src/src/app/business/review_ops.py, src/src/domain/rules.py,            *)
(* src/src/domain/models.py and src/src/infra/serialization.py.  The       *)
(* SQLite store behind get_store() (adapters/sqlite/store.py) is not part  *)
(* of the source tree; its operations are modelled from sections 3, 4.3    *)
(* and 4.5 of the specification and from the abstract port in              *)
(* src/src/ports/store.py.                                                 *)
(*                                                                         *)
(* run_review_worker is modelled from its loop (review_ops.py:253-302).    *)
(* Line 251 resolves the name get_llm_pool, which review_ops.py does not   *)
(* import; the model takes the pool as constructed.                        *)
(***************************************************************************)
EXTENDS Integers, Sequences, FiniteSets, TLC

VARIABLES
    tasks,        \* review_tasks table: sequence of rows, task_id = index
    decisions,    \* merge_decisions table: append-only, decision_id = index
    now,          \* the clock, in minutes
    worker,       \* per worker: position in run_review_worker and its locals
    hist,         \* per task: how often it was claimed and requeued
    ret,          \* the value returned by the last store operation
    entities,     \* entities table: entity id -> record
    relations,    \* relations table
    participants, \* participants table
    events,       \* events table: event id -> record
    event_edges,  \* event_edges table: sequence of rows
    applied,      \* per applier: position in its loop and its locals
    breaker,      \* a SimpleCircuitBreaker: its fields
    clock,        \* time.monotonic(), in seconds
    bcall,        \* the last breaker operation and what it returned
    limiter,      \* a TokenBucketRateLimiter: its fields
    caller,       \* per caller of an adapter: position in call / call_with_retry
    net,          \* requests sent to the provider
    threads,      \* the limiter's lock and, per thread, its position in acquire / try_acquire
    dedup,        \* a NewsDeduplicator: threshold and seen_hashes
    checked,      \* the is_duplicate calls so far: hash of the text, result
    gen           \* the last candidate generator call: its input and its enqueue calls

vars == <<tasks, decisions, now, worker, hist, ret,
          entities, relations, participants, events, event_edges, applied,
          breaker, clock, bcall, limiter, caller, net, threads, dedup, checked, gen>>

queueVars == <<tasks, decisions, now, worker, hist, ret>>
graphVars == <<entities, relations, participants, events, event_edges, applied>>
llmVars == <<breaker, clock, bcall, limiter, caller, net, threads>>
\* what the store's clients leave alone
dedupVars == <<dedup, checked>>
extVars == <<llmVars, dedupVars, gen>>

----------------------------------------------------------------------------
(* Bounds *)

MaxTasks == 2    \* rows the review_tasks table may hold
MaxTime == 1     \* minutes the clock may advance

Workers == {"w1", "w2"}

\* values of the max_tasks and max_age_minutes parameters
RunSizes == {1, 2}
MaxAges == {0, 1}

----------------------------------------------------------------------------
(* Domain values *)

Null == "null"
Absent == "absent"

\* an optional value: None, or Some(x)
None == <<>>
Some(x) == <<x>>

\* claimed_at of a task that was never claimed (Optional[datetime] = None)
NoTime == -1

\* ReviewTaskStatus
PENDING == "pending"
RUNNING == "running"
DONE == "done"
FAILED == "failed"
ReviewTaskStatus == {PENDING, RUNNING, DONE, FAILED}

\* ReviewTaskType
ENTITY_MERGE_REVIEW == "entity_merge_review"
EVENT_MERGE_OR_EVOLVE_REVIEW == "event_merge_or_evolve_review"
ReviewTaskType == {ENTITY_MERGE_REVIEW, EVENT_MERGE_OR_EVOLVE_REVIEW}

----------------------------------------------------------------------------
(* Strings that the code takes apart: a sequence of one-character strings *)

Whitespace == {" ", "\t", "\n", "\r"}

\* the ASCII separators normalize_entity_name and _norm_name remove
Separators ==
    {" ", "\t", "\n", "\r", "-", "_", ".", ",", "(", ")", "[", "]", "{", "}", "'"}

Reverse(s) == [i \in 1..Len(s) |-> s[Len(s) + 1 - i]]

RECURSIVE lstrip(_)
lstrip(s) == IF s # <<>> /\ Head(s) \in Whitespace THEN lstrip(Tail(s)) ELSE s

\* str.strip()
strip(s) == Reverse(lstrip(Reverse(lstrip(s))))

\* str.lower(), over the letters the model's names use
LowerChar(c) == CASE c = "A" -> "a" [] c = "C" -> "c" [] c = "O" -> "o" [] OTHER -> c
lower(s) == [i \in 1..Len(s) |-> LowerChar(s[i])]

\* normalize_entity_name(name): strip, lower, drop the separators
normalize_entity_name(name) ==
    SelectSeq(lower(strip(name)), LAMBDA c : c \notin Separators)

\* entity names: "Acme Co.", "Acme Co", "Acme Cos", "Acme Cox", "Orb"
NameA == <<"A", "c", "m", "e", " ", "C", "o", ".">>
NameB == <<"A", "c", "m", "e", " ", "C", "o">>
NameC == <<"A", "c", "m", "e", " ", "C", "o", "s">>
NameD == <<"A", "c", "m", "e", " ", "C", "o", "x">>
NameO == <<"O", "r", "b">>
\* an original form two entities may share: "Acme"
FormF == <<"A", "c", "m", "e">>

\* event ids and event abstracts
Ev1 == <<"e", "1">>
Ev2 == <<"e", "2">>
Ev3 == <<"e", "3">>
Ev4 == <<"e", "4">>

----------------------------------------------------------------------------
(* Candidate payloads (review_ops.py:168 and 228-232) *)

\* similarity is kept in thousandths: 923 stands for 0.923
EntityPayload(a, b, sim, why) ==
    [entity_a |-> a, entity_b |-> b, similarity |-> sim, candidate_reason |-> why]

\* time is the event's time as text: None is the empty string, Some(n) the
\* ISO text of minute n (the generator strips it, review_ops.py:196)
EventRef(id, abstract, time) == [event_id |-> id, abstract |-> abstract, time |-> time]

EventPayload(ea, eb, shared) == [event_a |-> ea, event_b |-> eb, shared_entities |-> shared]

\* priority=int(sim * 100)
EntityPriority(sim) == (sim * 100) \div 1000

\* priority=min(100, shared * 10)
EventPriority(shared) == IF shared * 10 < 100 THEN shared * 10 ELSE 100

\* the calls of store.enqueue_review_task made by the two candidate generators
EntityCandidate(a, b, sim, why) ==
    [type |-> ENTITY_MERGE_REVIEW, payload |-> EntityPayload(a, b, sim, why),
     priority |-> EntityPriority(sim)]

EventCandidate(ea, eb, shared) ==
    [type |-> EVENT_MERGE_OR_EVOLVE_REVIEW, payload |-> EventPayload(ea, eb, shared),
     priority |-> EventPriority(shared)]

\* every payload the candidate generators produce in this model
PayloadTable ==
    << EntityPayload(NameA, NameB, 1000, "original_forms_match"),
       EntityPayload(NameA, NameC, 923, "name_similarity"),
       EventPayload(EventRef(Ev1, "a1", Some(1)), EventRef(Ev2, "a2", None), 2),
       EventPayload(EventRef(Ev2, "a2", None), EventRef(Ev3, "a3", Some(3)), 3),
       EventPayload(EventRef(Ev2, "a2", None), EventRef(Ev4, "a4", None), 2) >>

\* the names, event ids and abstracts that payloads are built from
NameTable == <<NameA, NameB, NameC, NameD, NameO>>
EventTable == <<Ev1, Ev2, Ev3, Ev4>>
AbstractTable == <<"a1", "a2", "a3", "a4">>

IndexIn(table, x) == CHOOSE i \in 1..Len(table) : table[i] = x

\* a number per payload outside PayloadTable, one-to-one on the payloads the
\* candidate generators can build from the tables above
EventRefCode(e) ==
    (IF e.time = None THEN 0 ELSE e.time[1] + 1)
        + 10 * (IndexIn(AbstractTable, e.abstract) + 10 * IndexIn(EventTable, e.event_id))

PayloadCode(payload) ==
    IF "entity_a" \in DOMAIN payload
        THEN (IF payload.candidate_reason = "name_similarity" THEN 1 ELSE 0)
                 + 2 * (payload.similarity
                            + 1001 * (IndexIn(NameTable, payload.entity_b)
                                          + 10 * IndexIn(NameTable, payload.entity_a)))
        ELSE 1000000 + payload.shared_entities
                 + 100 * (EventRefCode(payload.event_b) + 1000 * EventRefCode(payload.event_a))

\* input_hash: a content hash of the canonicalized payload, one value per payload
InputHash(payload) ==
    IF \E h \in 1..Len(PayloadTable) : PayloadTable[h] = payload
        THEN CHOOSE h \in 1..Len(PayloadTable) : PayloadTable[h] = payload
        ELSE Len(PayloadTable) + PayloadCode(payload)

----------------------------------------------------------------------------
(* Adjudicator output and its parsing (serialization.py:131-203) *)

\* a parsed JSON object: every key of the two schemas, Absent when missing
\* (canonical_name: None when missing, else Some(name)); the JSON booleans
\* are "true" and "false"
Out(merge, canonical_name, decision, edge_type, canonical_abstract, listed) ==
    [merge |-> merge, canonical_name |-> canonical_name, decision |-> decision,
     edge_type |-> edge_type, canonical_abstract |-> canonical_abstract,
     events |-> listed]

EntityOut(merge, canonical_name) == Out(merge, canonical_name, Absent, Absent, Absent, Absent)
EventOut(decision, edge_type, canonical_abstract) ==
    Out(Absent, None, decision, edge_type, canonical_abstract, Absent)
EmptyObject == Out(Absent, None, Absent, Absent, Absent, Absent)

\* An LLM response text: optional markdown fence, optional prose around the
\* payload, and the payload itself: blank, garbage, a JSON scalar, a JSON
\* list or a JSON object.
Text(fenced, prose, core, obj) == [fenced |-> fenced, prose |-> prose, core |-> core, obj |-> obj]
Plain(core) == Text(FALSE, FALSE, core, EmptyObject)

IsEmptyText(text) == ~text.fenced /\ ~text.prose /\ text.core = "blank"

\* _strip_markdown_code_fence: the content of the first fenced block, if any
_strip_markdown_code_fence(text) == [text EXCEPT !.fenced = FALSE]

\* _extract_json_object_span: the text from the first { to the last }, else
\* from the first [ to the last ], else the text itself
_extract_json_object_span(text) ==
    IF text.core \in {"object", "list"} THEN [text EXCEPT !.prose = FALSE] ELSE text

Ok(value) == [ok |-> TRUE, value |-> value, error |-> Null]
Err(error) == [ok |-> FALSE, value |-> EmptyObject, error |-> error]

extract_json_from_llm_response(text) ==
    IF IsEmptyText(text) THEN Err("ValueError: empty input")
    ELSE LET candidate == _extract_json_object_span(_strip_markdown_code_fence(text))
         IN  IF candidate.core = "blank" /\ ~candidate.prose
                 THEN Err("ValueError: empty JSON content")
             ELSE IF candidate.prose \/ candidate.core \in {"blank", "garbage"}
                 THEN Err("JSONDecodeError")
             ELSE IF candidate.core = "list"
                 THEN Ok([EmptyObject EXCEPT !.events = "list"])
             ELSE IF candidate.core = "scalar"
                 THEN Err("ValueError: not a JSON object")
             ELSE Ok(candidate.obj)

\* the verdict field each output schema requires (review_ops.py:51-57, 80-87)
HasVerdictFields(type, out) ==
    IF type = ENTITY_MERGE_REVIEW
        THEN out.merge # Absent /\ out.canonical_name # None
        ELSE out.decision # Absent

----------------------------------------------------------------------------
(* Review queue: store operations (spec 4.3) *)

TaskIds == 1..Len(tasks)

HasDecision(input_hash) == \E i \in 1..Len(decisions) : decisions[i].input_hash = input_hash

NewTask(type, payload, priority) ==
    [type |-> type, input_hash |-> InputHash(payload), payload |-> payload,
     status |-> PENDING, priority |-> priority, claimed_at |-> NoTime,
     output |-> None, error |-> Null]

\* enqueue(type, payload): no-op if a decision already exists for the hash
enqueue_review_task_always(type, payload, priority) ==
    Append(tasks, NewTask(type, payload, priority))

enqueue_review_task(type, payload, priority) ==
    IF HasDecision(InputHash(payload)) THEN tasks
    ELSE Append(tasks, NewTask(type, payload, priority))

\* the pending tasks claim_next may select: of the type, of highest priority
Claimable_any(type) ==
    {i \in TaskIds : tasks[i].type = type /\ tasks[i].status \in {PENDING, RUNNING}}

Claimable(type) ==
    {i \in TaskIds :
        /\ tasks[i].status = PENDING
        /\ tasks[i].type = type
        /\ \A j \in TaskIds :
              (tasks[j].status = PENDING /\ tasks[j].type = type)
                  => tasks[j].priority <= tasks[i].priority}

\* claim_next: status=running, claimed_at=now, in one atomic step
claim_next_review_task(i) ==
    [tasks EXCEPT ![i] = [@ EXCEPT !.status = RUNNING, !.claimed_at = now]]

\* complete(task_id, status, output?, error?)
complete_review_task(task_id, status, output, error) ==
    [tasks EXCEPT ![task_id] = [@ EXCEPT !.status = status, !.output = output, !.error = error]]

\* a requeue that finds no lease expired
IsStale_never(i, max_age_minutes) == FALSE

\* a running task whose claimed_at is older than the threshold
IsStale_any(i, max_age_minutes) == tasks[i].status = RUNNING

IsStale(i, max_age_minutes) ==
    /\ tasks[i].status = RUNNING
    /\ now - tasks[i].claimed_at > max_age_minutes

StaleTasks(max_age_minutes) == {i \in TaskIds : IsStale(i, max_age_minutes)}

\* requeue_stale(max_age_minutes): every stale task is reset to pending
requeue_stale_tasks(max_age_minutes) ==
    [i \in TaskIds |->
        IF IsStale(i, max_age_minutes) THEN [tasks[i] EXCEPT !.status = PENDING]
        ELSE tasks[i]]

\* a write of the decision that is lost
upsert_merge_decision_lost(type, input_hash, out) == decisions

\* upsert_merge_decision: one more row in the append-only decision log
upsert_merge_decision(type, input_hash, out) ==
    Append(decisions, [type |-> type, input_hash |-> input_hash, output |-> out])


----------------------------------------------------------------------------
(* Inputs of the review queue *)

EntityCandidates ==
    { EntityCandidate(p.entity_a, p.entity_b, p.similarity, p.candidate_reason) :
        p \in {PayloadTable[1], PayloadTable[2]} }

EventCandidates ==
    { EventCandidate(p.event_a, p.event_b, p.shared_entities) : p \in {PayloadTable[3]} }

\* a well-formed verdict for a task of the type
Verdict(type) ==
    IF type = ENTITY_MERGE_REVIEW THEN EntityOut("true", Some(NameA))
    ELSE EventOut("evolve", "escalates", "")

\* What one pass through the try block meets: an exception raised before a
\* response is parsed (building the prompt, limiter.acquire(),
\* call_llm_with_retry), or the text the adjudicator answers.
Raised(e) == [raised |-> TRUE, error |-> e, text |-> Plain("blank")]
Answer(text) == [raised |-> FALSE, error |-> Null, text |-> text]

AllOutcomes(type) ==
    { Raised("LLMError"),
      Answer(Plain("blank")), Answer(Plain("garbage")), Answer(Plain("scalar")),
      Answer(Plain("list")),
      Answer(Text(FALSE, FALSE, "object", EmptyObject)),
      Answer(Text(FALSE, FALSE, "object", Verdict(type))),
      Answer(Text(TRUE, TRUE, "object", Verdict(type))) }

FewOutcomes(type) ==
    { Answer(Plain("garbage")), Answer(Text(FALSE, FALSE, "object", Verdict(type))) }

----------------------------------------------------------------------------
(* run_review_worker (review_ops.py:244-302) *)

IdleWorker ==
    [pc |-> "idle", task_type |-> ENTITY_MERGE_REVIEW, max_tasks |-> 0, iter |-> 0,
     done |-> 0, failed |-> 0, task_id |-> 0, out |-> EmptyObject, claimed |-> {}]

\* run_review_worker(task_type, max_tasks, rate_limit_per_sec): done = failed = 0
WorkerStart(w, task_type, max_tasks) ==
    /\ worker[w].pc = "idle"
    /\ worker' = [worker EXCEPT ![w] =
                    [IdleWorker EXCEPT !.pc = "claim", !.task_type = task_type,
                                       !.max_tasks = max_tasks]]
    /\ UNCHANGED <<tasks, decisions, now, hist, ret>>
    /\ UNCHANGED <<graphVars, extVars>>

\* for _ in range(max_tasks): task = store.claim_next_review_task(task_type);
\* if not task: break ... return {"done": done, "failed": failed}
WorkerClaim(w) ==
    /\ worker[w].pc = "claim"
    /\ IF worker[w].iter >= worker[w].max_tasks \/ Claimable(worker[w].task_type) = {}
       THEN /\ worker' = [worker EXCEPT ![w].pc = "returned"]
            /\ UNCHANGED <<tasks, hist>>
       ELSE \E i \in Claimable(worker[w].task_type) :
            /\ tasks' = claim_next_review_task(i)
            /\ hist' = [hist EXCEPT ![i] = @ + 1]
            /\ worker' = [worker EXCEPT ![w] =
                            [@ EXCEPT !.pc = "process", !.iter = @ + 1, !.task_id = i,
                                      !.claimed = @ \cup {i}]]
    /\ UNCHANGED <<decisions, now, ret>>
    /\ UNCHANGED <<graphVars, extVars>>

\* except Exception as e:
\*     store.complete_review_task(task_id, status="failed", error=str(e)); failed += 1
\* and the loop goes on
WorkerExcept_break(w, e) ==
    /\ tasks' = complete_review_task(worker[w].task_id, FAILED, None, e)
    /\ worker' = [worker EXCEPT ![w] =
                    [@ EXCEPT !.pc = "returned", !.failed = @ + 1, !.out = EmptyObject]]

WorkerExcept(w, e) ==
    /\ tasks' = complete_review_task(worker[w].task_id, FAILED, None, e)
    /\ worker' = [worker EXCEPT ![w] =
                    [@ EXCEPT !.pc = "claim", !.failed = @ + 1, !.out = EmptyObject]]

\* text = call_llm_with_retry(...); if not text: raise ValueError(...)
\* out = extract_json_from_llm_response(text)
\* store.upsert_merge_decision(task_type, input_hash, out, ...)
WorkerAdjudicate(w, text) ==
    LET parsed == extract_json_from_llm_response(text)
    IN  IF IsEmptyText(text)
            THEN WorkerExcept(w, "ValueError: Empty LLM response") /\ UNCHANGED decisions
        ELSE IF ~parsed.ok
            THEN WorkerExcept(w, parsed.error) /\ UNCHANGED decisions
        ELSE /\ decisions' = upsert_merge_decision(worker[w].task_type,
                                  tasks[worker[w].task_id].input_hash, parsed.value)
             /\ worker' = [worker EXCEPT ![w] =
                             [@ EXCEPT !.pc = "complete", !.out = parsed.value]]
             /\ UNCHANGED tasks

\* the try block up to and including upsert_merge_decision
WorkerProcess(w, outcome) ==
    /\ worker[w].pc = "process"
    /\ IF outcome.raised
           THEN WorkerExcept(w, outcome.error) /\ UNCHANGED decisions
           ELSE WorkerAdjudicate(w, outcome.text)
    /\ UNCHANGED <<now, hist, ret>>
    /\ UNCHANGED <<graphVars, extVars>>

\* store.complete_review_task(task_id, status="done", output=out, ...); done += 1
WorkerCompleteDone(w) ==
    /\ worker[w].pc = "complete"
    /\ tasks' = complete_review_task(worker[w].task_id, DONE, Some(worker[w].out), Null)
    /\ worker' = [worker EXCEPT ![w] =
                    [@ EXCEPT !.pc = "claim", !.done = @ + 1, !.out = EmptyObject]]
    /\ UNCHANGED <<decisions, now, hist, ret>>
    /\ UNCHANGED <<graphVars, extVars>>

\* complete_review_task(status="done") raises: the handler marks the task failed
WorkerCompleteError(w) ==
    /\ worker[w].pc = "complete"
    /\ WorkerExcept(w, "StoreError")
    /\ UNCHANGED <<decisions, now, hist, ret>>
    /\ UNCHANGED <<graphVars, extVars>>

----------------------------------------------------------------------------
(* The other clients of the queue *)

\* store.enqueue_review_task(type, payload, priority), as called by the
\* candidate generators (review_ops.py:169 and 233)
Enqueue(c) ==
    /\ HasDecision(InputHash(c.payload)) \/ Len(tasks) < MaxTasks
    /\ tasks' = enqueue_review_task(c.type, c.payload, c.priority)
    /\ hist' = IF Len(tasks') > Len(tasks) THEN Append(hist, 0) ELSE hist
    /\ UNCHANGED <<decisions, now, worker>>
    /\ UNCHANGED <<graphVars, extVars>>

\* what the call returns to the scheduler: {"requeued": n}
requeue_stale_review_tasks(max_age_minutes) ==
    [op |-> "requeue", n |-> Cardinality(StaleTasks(max_age_minutes))]

\* requeue_stale_review_tasks(max_age_minutes) (review_ops.py:497-500)
RequeueStale(max_age_minutes) ==
    /\ tasks' = requeue_stale_tasks(max_age_minutes)
    /\ hist' = [i \in TaskIds |-> IF IsStale(i, max_age_minutes) THEN 0 ELSE hist[i]]
    /\ UNCHANGED <<decisions, now, worker>>
    /\ UNCHANGED <<graphVars, extVars>>

\* time passes
Tick ==
    /\ now < MaxTime
    /\ now' = now + 1
    /\ UNCHANGED <<tasks, decisions, worker, hist, ret>>
    /\ UNCHANGED <<graphVars, extVars>>

----------------------------------------------------------------------------
(* Canonical store: tables and the entity merge (spec 3 and 4.5) *)

Range(s) == {s[i] : i \in 1..Len(s)}
Min(a, b) == IF a <= b THEN a ELSE b

\* IdFactory.entity_id: sha1("ent:" + name.strip()), one id per stripped name
canonical_entity_id(name) == <<"ent:">> \o strip(name)

\* a source reference; merge_entity_sources keys it by (id, url)
Src(id, url, name) == [id |-> id, url |-> url, name |-> name]
SourceKey(src) == <<src.id, src.url>>

\* the loop of merge_entity_sources: a source is kept unless its key was seen
RECURSIVE AppendSources(_, _)
AppendSources(result, rest) ==
    IF rest = <<>> THEN result
    ELSE IF \E i \in 1..Len(result) : SourceKey(result[i]) = SourceKey(Head(rest))
        THEN AppendSources(result, Tail(rest))
    ELSE AppendSources(Append(result, Head(rest)), Tail(rest))

merge_entity_sources(sources_a, sources_b) == AppendSources(<<>>, sources_a \o sources_b)

\* the loop of merge_original_forms: a non-blank form is kept, stripped,
\* unless its normalized name was seen
RECURSIVE AppendForms(_, _, _)
AppendForms(seen, result, rest) ==
    IF rest = <<>> THEN result
    ELSE LET f == Head(rest)
             key == normalize_entity_name(f)
         IN  IF strip(f) # <<>> /\ key \notin seen
                 THEN AppendForms(seen \cup {key}, Append(result, strip(f)), Tail(rest))
             ELSE AppendForms(seen, result, Tail(rest))

merge_original_forms_concat(forms_a, forms_b) == forms_a \o forms_b

merge_original_forms(forms_a, forms_b) == AppendForms({}, <<>>, forms_a \o forms_b)

\* EntityCanonical, RelationTriple, Participant, EventCanonical, EventEdge rows
Entity(name, first_seen, sources, original_forms, aliases) ==
    [name |-> name, first_seen |-> first_seen, sources |-> sources,
     original_forms |-> original_forms, aliases |-> aliases]

RelationTriple(event_id, subject_entity_id, predicate, object_entity_id, time) ==
    [event_id |-> event_id, subject_entity_id |-> subject_entity_id,
     predicate |-> predicate, object_entity_id |-> object_entity_id, time |-> time]

Participant(event_id, entity_id, time) ==
    [event_id |-> event_id, entity_id |-> entity_id, time |-> time]

Event(abstract, first_seen, ents) ==
    [abstract |-> abstract, first_seen |-> first_seen, entities |-> ents]

EventEdge(from_event_id, to_event_id, edge_type, time, reported_at, decision_input_hash) ==
    [from_event_id |-> from_event_id, to_event_id |-> to_event_id,
     edge_type |-> edge_type, time |-> time, reported_at |-> reported_at,
     decision_input_hash |-> decision_input_hash]

\* the canonical store as one value
Graph ==
    [entities |-> entities, relations |-> relations, participants |-> participants,
     events |-> events, event_edges |-> event_edges]

Rewrite(id, from_id, to_id) == IF id = from_id THEN to_id ELSE id

\* merge_entities that keeps the from record
merge_entities_keep(g, from_entity_id, to_entity_id) ==
    IF from_entity_id \notin DOMAIN g.entities \/ to_entity_id \notin DOMAIN g.entities
        THEN [status |-> "skipped", g |-> g]
    ELSE [status |-> "merged",
          g |-> [g EXCEPT !.entities[to_entity_id].aliases =
                              @ \cup g.entities[from_entity_id].aliases]]

\* merge_entities(from, to): skipped when the from record no longer exists
\* (and when there is no to record to merge into); else the to record takes
\* the union of sources, original_forms and aliases and the least first_seen,
\* every relation and participant of from is rewritten to to, and the from
\* record is deleted
merge_entities(g, from_entity_id, to_entity_id) ==
    IF from_entity_id \notin DOMAIN g.entities \/ to_entity_id \notin DOMAIN g.entities
        THEN [status |-> "skipped", g |-> g]
    ELSE LET f == g.entities[from_entity_id]
             t == g.entities[to_entity_id]
             merged == [t EXCEPT
                          !.sources = merge_entity_sources(t.sources, f.sources),
                          !.original_forms =
                              merge_original_forms(t.original_forms, f.original_forms),
                          !.aliases = t.aliases \cup f.aliases,
                          !.first_seen = Min(t.first_seen, f.first_seen)]
         IN  [status |-> "merged",
              g |-> [g EXCEPT
                       !.entities =
                           [e \in DOMAIN g.entities \ {from_entity_id} |->
                               IF e = to_entity_id THEN merged ELSE g.entities[e]],
                       !.relations =
                           [i \in 1..Len(g.relations) |->
                               [g.relations[i] EXCEPT
                                  !.subject_entity_id =
                                      Rewrite(@, from_entity_id, to_entity_id),
                                  !.object_entity_id =
                                      Rewrite(@, from_entity_id, to_entity_id)]],
                       !.participants =
                           [i \in 1..Len(g.participants) |->
                               [g.participants[i] EXCEPT
                                  !.entity_id =
                                      Rewrite(@, from_entity_id, to_entity_id)]]]]

\* merge_events(from, to): symmetric for events, additionally unioning entities
merge_events(g, from_event_id, to_event_id) ==
    IF from_event_id \notin DOMAIN g.events \/ to_event_id \notin DOMAIN g.events
        THEN [status |-> "skipped", g |-> g]
    ELSE LET f == g.events[from_event_id]
             t == g.events[to_event_id]
             merged == [t EXCEPT !.entities = t.entities \cup f.entities,
                                 !.first_seen = Min(t.first_seen, f.first_seen)]
         IN  [status |-> "merged",
              g |-> [g EXCEPT
                       !.events =
                           [e \in DOMAIN g.events \ {from_event_id} |->
                               IF e = to_event_id THEN merged ELSE g.events[e]],
                       !.relations =
                           [i \in 1..Len(g.relations) |->
                               [g.relations[i] EXCEPT
                                  !.event_id = Rewrite(@, from_event_id, to_event_id)]],
                       !.participants =
                           [i \in 1..Len(g.participants) |->
                               [g.participants[i] EXCEPT
                                  !.event_id = Rewrite(@, from_event_id, to_event_id)]]]]

\* the tables take the value of g
StoreGraph(g) ==
    /\ entities' = g.entities
    /\ relations' = g.relations
    /\ participants' = g.participants
    /\ events' = g.events
    /\ event_edges' = g.event_edges

----------------------------------------------------------------------------
(* The appliers (review_ops.py:310-390 and 398-489) *)

Appliers == {"p1", "p2"}

\* values of the max_actions parameter
ActionLimits == {1, 2}

NoCall == [from_id |-> <<>>, to_id |-> <<>>, status |-> "none"]

IdleApplier ==
    [pc |-> "idle", type |-> ENTITY_MERGE_REVIEW, max_actions |-> 0, rows |-> <<>>,
     task_map |-> <<>>, i |-> 0, applied |-> 0, edges |-> 0, skipped |-> 0,
     last |-> NoCall]

\* SELECT input_hash, output_json FROM merge_decisions WHERE type=...
\* ORDER BY decision_id ASC
DecisionRows(type) == SelectSeq(decisions, LAMBDA d : d.type = type)

\* {input_hash: payload} over the review_tasks rows of the type
TaskMap(type) ==
    [h \in {tasks[i].input_hash : i \in {j \in TaskIds : tasks[j].type = type}} |->
        tasks[CHOOSE i \in TaskIds : tasks[i].type = type /\ tasks[i].input_hash = h].payload]

\* both appliers: the counters start at 0, the decisions and the task
\* payloads are read once
ApplierStart(a, type, max_actions) ==
    /\ applied[a].pc \in {"idle", "returned"}
    /\ applied' = [applied EXCEPT ![a] =
                     [IdleApplier EXCEPT !.pc = "run", !.type = type,
                                         !.max_actions = max_actions,
                                         !.rows = DecisionRows(type),
                                         !.task_map = TaskMap(type)]]
    /\ UNCHANGED <<queueVars, extVars>>
    /\ UNCHANGED <<entities, relations, participants, events, event_edges>>

\* for r in rows: if applied >= max_actions: break
ApplierMore(a) ==
    /\ applied[a].pc = "run"
    /\ applied[a].i < Len(applied[a].rows)
    /\ applied[a].applied + applied[a].edges < applied[a].max_actions

\* return {"status": "ok", "applied": applied, "skipped": skipped}
ApplierReturn(a) ==
    /\ applied[a].pc = "run"
    /\ ~ApplierMore(a)
    /\ applied' = [applied EXCEPT ![a].pc = "returned"]
    /\ UNCHANGED <<queueVars, extVars>>
    /\ UNCHANGED <<entities, relations, participants, events, event_edges>>

\* skipped += 1; continue
ApplierSkip(a) ==
    /\ applied' = [applied EXCEPT ![a] =
                     [@ EXCEPT !.i = @ + 1, !.skipped = @ + 1, !.last = NoCall]]
    /\ UNCHANGED <<entities, relations, participants, events, event_edges>>

\* the outcome of store.merge_entities / store.merge_events is counted
ApplierMerged(a, from_id, to_id, res) ==
    /\ StoreGraph(res.g)
    /\ applied' = [applied EXCEPT ![a] =
                     [@ EXCEPT !.i = @ + 1,
                               !.applied = IF res.status = "merged" THEN @ + 1 ELSE @,
                               !.skipped = IF res.status = "merged" THEN @ ELSE @ + 1,
                               !.last = [from_id |-> from_id, to_id |-> to_id,
                                         status |-> res.status]]]

\* to_name: canonical_name when it is one of the two names, else the longer
ToName(canonical_name, a_name, b_name) ==
    IF canonical_name = a_name THEN a_name
    ELSE IF canonical_name = b_name THEN b_name
    ELSE IF Len(a_name) >= Len(b_name) THEN a_name ELSE b_name

FromName(canonical_name, a_name, b_name) ==
    IF canonical_name = a_name THEN b_name
    ELSE IF canonical_name = b_name THEN a_name
    ELSE IF Len(a_name) >= Len(b_name) THEN b_name ELSE a_name

\* one pass of the loop of apply_entity_merge_decisions
ApplyEntityDecision(a) ==
    /\ ApplierMore(a)
    /\ applied[a].type = ENTITY_MERGE_REVIEW
    /\ LET s == applied[a]
           r == s.rows[s.i + 1]
           out == r.output
           known == r.input_hash \in DOMAIN s.task_map
           a_name == IF known THEN strip(s.task_map[r.input_hash].entity_a) ELSE <<>>
           b_name == IF known THEN strip(s.task_map[r.input_hash].entity_b) ELSE <<>>
           canonical_name ==
               IF out.canonical_name = None THEN <<>> ELSE strip(out.canonical_name[1])
           from_id == canonical_entity_id(FromName(canonical_name, a_name, b_name))
           to_id == canonical_entity_id(ToName(canonical_name, a_name, b_name))
       IN  IF out.merge # "true" \/ a_name = <<>> \/ b_name = <<>>
               THEN ApplierSkip(a)
               ELSE ApplierMerged(a, from_id, to_id, merge_entities(Graph, from_id, to_id))
    /\ UNCHANGED <<queueVars, extVars>>

\* _utc_now_iso()
_utc_now_iso == Some(now)

\* t = str(ea.get("time") or eb.get("time") or "").strip(), without the
\* fall-back to the current time
EdgeTime_nofallback(ea, eb) == IF ea.time # None THEN ea.time ELSE eb.time

\* t = str(ea.get("time") or eb.get("time") or "").strip()
\* if not t: t = _utc_now_iso()
EdgeTime(ea, eb) ==
    LET t == IF ea.time # None THEN ea.time ELSE eb.time
    IN  IF t = None THEN _utc_now_iso ELSE t

EdgeKey(e) == <<e.from_event_id, e.to_event_id, e.edge_type>>

\* a plain INSERT INTO event_edges
insert_event_edge(edges, row) == Append(edges, row)

\* INSERT INTO event_edges ... ON CONFLICT(from_event_id,to_event_id,edge_type)
\* DO UPDATE SET time=excluded.time, reported_at=excluded.reported_at, ...
upsert_event_edge(edges, row) ==
    IF \E i \in 1..Len(edges) : EdgeKey(edges[i]) = EdgeKey(row)
        THEN [i \in 1..Len(edges) |->
                 IF EdgeKey(edges[i]) = EdgeKey(row)
                     THEN [edges[i] EXCEPT !.time = row.time,
                                           !.reported_at = row.reported_at]
                     ELSE edges[i]]
    ELSE Append(edges, row)

\* decision = str(out.get("decision") or "").strip().lower(); the answers of
\* this model are lower-case and unpadded
DecisionOf(out) == IF out.decision = Absent THEN "" ELSE out.decision

\* edge_type = str(out.get("edge_type") or "related").strip() or "related"
EdgeTypeOf(out) == IF out.edge_type \in {Absent, ""} THEN "related" ELSE out.edge_type

\* one pass of the loop of apply_event_merge_or_evolve_decisions
ApplyEventDecision(a) ==
    /\ ApplierMore(a)
    /\ applied[a].type = EVENT_MERGE_OR_EVOLVE_REVIEW
    /\ LET s == applied[a]
           r == s.rows[s.i + 1]
           out == r.output
           known == r.input_hash \in DOMAIN s.task_map
           ea == s.task_map[r.input_hash].event_a
           eb == s.task_map[r.input_hash].event_b
           a_id == IF known THEN strip(ea.event_id) ELSE <<>>
           b_id == IF known THEN strip(eb.event_id) ELSE <<>>
           canonical_abs == IF out.canonical_abstract = Absent THEN ""
                            ELSE out.canonical_abstract
           to_b == canonical_abs # "" /\ canonical_abs = eb.abstract
           to_id == IF to_b THEN b_id ELSE a_id
           from_id == IF to_b THEN a_id ELSE b_id
       IN  IF a_id = <<>> \/ b_id = <<>>
               THEN ApplierSkip(a)
           ELSE IF DecisionOf(out) = "merge"
               THEN ApplierMerged(a, from_id, to_id, merge_events(Graph, from_id, to_id))
           ELSE IF DecisionOf(out) = "evolve"
               THEN /\ event_edges' =
                          upsert_event_edge(event_edges,
                              EventEdge(a_id, b_id, EdgeTypeOf(out), EdgeTime(ea, eb),
                                        _utc_now_iso, r.input_hash))
                    /\ applied' = [applied EXCEPT ![a] =
                                     [@ EXCEPT !.i = @ + 1, !.edges = @ + 1,
                                               !.last = NoCall]]
                    /\ UNCHANGED <<entities, relations, participants, events>>
           ELSE ApplierSkip(a)
    /\ UNCHANGED <<queueVars, extVars>>

----------------------------------------------------------------------------
(* Rows that carry a mandatory time (models.py:174-258) *)

MaxRows == 1    \* rows the relations and the participants table may take

\* RelationTriple.validate
RelationTriple_validate(r) ==
    /\ r.time # None
    /\ r.subject_entity_id # <<>>
    /\ r.object_entity_id # <<>>
    /\ r.predicate # ""

\* EventEdge.validate
EventEdge_validate(e) ==
    /\ e.time # None
    /\ e.from_event_id # <<>>
    /\ e.to_event_id # <<>>

\* Participant.validate
Participant_validate(p) ==
    /\ p.time # None
    /\ p.event_id # <<>>
    /\ p.entity_id # <<>>

\* what a store write returns to its caller
Persisted(op) == [op |-> op, n |-> 1]
Rejected(op) == [op |-> op, n |-> 0]

\* upsert_relation(relation): a triple that does not validate is rejected
UpsertRelation(r) ==
    /\ Len(relations) < MaxRows
    /\ IF RelationTriple_validate(r)
           THEN relations' = Append(relations, r) /\ ret' = Persisted("upsert_relation")
           ELSE UNCHANGED relations /\ ret' = Rejected("upsert_relation")
    /\ UNCHANGED <<tasks, decisions, now, worker, hist>>
    /\ UNCHANGED extVars
    /\ UNCHANGED <<entities, participants, events, event_edges, applied>>

\* upsert_participant(participant)
UpsertParticipant(p) ==
    /\ Len(participants) < MaxRows
    /\ IF Participant_validate(p)
           THEN participants' = Append(participants, p)
                /\ ret' = Persisted("upsert_participant")
           ELSE UNCHANGED participants /\ ret' = Rejected("upsert_participant")
    /\ UNCHANGED <<tasks, decisions, now, worker, hist>>
    /\ UNCHANGED extVars
    /\ UNCHANGED <<entities, relations, events, event_edges, applied>>

\* upsert_edge(edge): on the natural key, as apply_event_edge
UpsertEdge(e) ==
    /\ IF EventEdge_validate(e)
           THEN event_edges' = upsert_event_edge(event_edges, e)
                /\ ret' = Persisted("upsert_edge")
           ELSE UNCHANGED event_edges /\ ret' = Rejected("upsert_edge")
    /\ UNCHANGED <<tasks, decisions, now, worker, hist>>
    /\ UNCHANGED extVars
    /\ UNCHANGED <<entities, relations, participants, events, applied>>

----------------------------------------------------------------------------
(* SimpleCircuitBreaker (infra/common.py:440-511).  Every method runs under *)
(* the breaker's lock, so each is one step.  time.monotonic() is positive:  *)
(* _check_recovery reads a _last_failure_time of 0.0 as "no failure yet".   *)

MaxClock == 4    \* seconds the monotonic clock may reach
MaxOps == 6      \* breaker operations in one run
MaxCalls == 3    \* limiter calls in one run

CLOSED == "closed"
OPEN == "open"
HALF_OPEN == "half_open"
CircuitState == {CLOSED, OPEN, HALF_OPEN}

FailureThresholds == {1, 2}
RecoveryTimeouts == {1, 2}
HalfOpenMaxCalls == {1}

\* SimpleCircuitBreaker.__init__
SimpleCircuitBreaker(failure_threshold, recovery_timeout_seconds, half_open_max_calls) ==
    [failure_threshold |-> failure_threshold,
     recovery_timeout |-> recovery_timeout_seconds,
     half_open_max_calls |-> half_open_max_calls,
     failure_count |-> 0, success_count |-> 0, half_open_calls |-> 0,
     state |-> CLOSED, last_failure_time |-> None]

\* truth value of an Optional[float]
Truthy(o) == o # None /\ o[1] # 0

\* _check_recovery at monotonic time t
_check_recovery(b, t) ==
    IF b.state = OPEN /\ Truthy(b.last_failure_time)
       /\ t - b.last_failure_time[1] >= b.recovery_timeout
        THEN [b EXCEPT !.state = HALF_OPEN, !.half_open_calls = 0]
        ELSE b

\* can_call that lets every call through
can_call_always(b, t) == [breaker |-> _check_recovery(b, t), result |-> TRUE]

\* can_call: the breaker after the call and the value returned
can_call(b, t) ==
    LET c == _check_recovery(b, t)
    IN  [breaker |-> c,
         result |-> IF c.state = CLOSED THEN TRUE
                    ELSE IF c.state = HALF_OPEN
                        THEN c.half_open_calls < c.half_open_max_calls
                    ELSE FALSE]

\* record_success that leaves _failure_count alone while closed
record_success_keep(b) ==
    LET c == [b EXCEPT !.success_count = @ + 1]
    IN  IF c.state = HALF_OPEN
            THEN [c EXCEPT !.half_open_calls = @ + 1, !.state = CLOSED,
                           !.failure_count = 0]
        ELSE c

\* record_success
record_success(b) ==
    LET c == [b EXCEPT !.success_count = @ + 1]
    IN  IF c.state = HALF_OPEN
            THEN [c EXCEPT !.half_open_calls = @ + 1, !.state = CLOSED,
                           !.failure_count = 0]
        ELSE IF c.state = CLOSED
            THEN [c EXCEPT !.failure_count = 0]
        ELSE c

\* record_failure at monotonic time t
record_failure(b, t) ==
    LET c == [b EXCEPT !.failure_count = @ + 1, !.last_failure_time = Some(t)]
    IN  IF c.state = HALF_OPEN
            THEN [c EXCEPT !.state = OPEN]
        ELSE IF c.state = CLOSED /\ c.failure_count >= c.failure_threshold
            THEN [c EXCEPT !.state = OPEN]
        ELSE c

\* reset
reset(b) ==
    [b EXCEPT !.state = CLOSED, !.failure_count = 0, !.success_count = 0,
              !.half_open_calls = 0, !.last_failure_time = None]

\* the record of the last operation: its name, what can_call returned, how
\* many operations ran, and the failures recorded in a row
NoOp == [op |-> "none", result |-> FALSE, n |-> 0, streak |-> 0, admitted |-> 0]
\* the calls can_call() has let through while half open since an outcome was
\* last recorded
Admitted(op, result) ==
    IF op \in {"record_success", "record_failure", "reset"} THEN 0
    ELSE IF op = "can_call" /\ result /\ _check_recovery(breaker, clock).state = HALF_OPEN
        THEN bcall.admitted + 1
    ELSE bcall.admitted
Logged(op, result, streak) ==
    [op |-> op, result |-> result, n |-> bcall.n + 1, streak |-> streak,
     admitted |-> Admitted(op, result)]

BreakerFrame == UNCHANGED <<queueVars, graphVars, clock, limiter, caller, net, threads, dedupVars, gen>>

BreakerCanCall ==
    /\ bcall.n < MaxOps
    /\ breaker' = can_call(breaker, clock).breaker
    /\ bcall' = Logged("can_call", can_call(breaker, clock).result, bcall.streak)
    /\ BreakerFrame

\* the state property
BreakerState ==
    /\ bcall.n < MaxOps
    /\ breaker' = _check_recovery(breaker, clock)
    /\ bcall' = Logged("state", FALSE, bcall.streak)
    /\ BreakerFrame

BreakerRecordSuccess ==
    /\ bcall.n < MaxOps
    /\ breaker' = record_success(breaker)
    /\ bcall' = Logged("record_success", FALSE, 0)
    /\ BreakerFrame

BreakerRecordFailure ==
    /\ bcall.n < MaxOps
    /\ breaker' = record_failure(breaker, clock)
    /\ bcall' = Logged("record_failure", FALSE, bcall.streak + 1)
    /\ BreakerFrame

BreakerReset ==
    /\ bcall.n < MaxOps
    /\ breaker' = reset(breaker)
    /\ bcall' = Logged("reset", FALSE, 0)
    /\ BreakerFrame

\* time passes
ClockTick ==
    /\ clock < MaxClock
    /\ clock' = clock + 1
    /\ UNCHANGED <<queueVars, graphVars, breaker, bcall, limiter, caller, net, threads, dedupVars, gen>>

----------------------------------------------------------------------------
(* TokenBucketRateLimiter (infra/common.py:381-420), with whole seconds and *)
(* a whole rate                                                             *)

\* TokenBucketRateLimiter.__init__: burst_size = max(1, int(rate_per_second))
TokenBucketRateLimiter(rate_per_second, t) ==
    [rate |-> rate_per_second,
     burst_size |-> IF rate_per_second > 1 THEN rate_per_second ELSE 1,
     tokens |-> IF rate_per_second > 1 THEN rate_per_second ELSE 1,
     last_refill |-> t]

\* _refill that does not cap the bucket at burst_size
_refill_uncapped(l, t) ==
    [l EXCEPT !.tokens = l.tokens + (t - l.last_refill) * l.rate, !.last_refill = t]

\* _refill at monotonic time t
_refill(l, t) ==
    LET new_tokens == (t - l.last_refill) * l.rate
        sum == l.tokens + new_tokens
    IN  [l EXCEPT !.tokens = IF sum < l.burst_size THEN sum ELSE l.burst_size,
                  !.last_refill = t]

\* TokenBucketRateLimiter.__init__ with a burst_size
BurstLimiter(rate_per_second, burst_size, t) ==
    [rate |-> rate_per_second, burst_size |-> burst_size,
     tokens |-> burst_size, last_refill |-> t]

\* the sum of f over keys
RECURSIVE SumOver(_, _)
SumOver(f, keys) ==
    IF keys = {} THEN 0
    ELSE LET k == CHOOSE x \in keys : TRUE IN f[k] + SumOver(f, keys \ {k})

\* threads that share one limiter
Threads == {"t1", "t2"}
TokenCounts == {1, 2}

\* a thread outside the limiter: the calls it has made, the tokens it was
\* granted, and what its last try_acquire returned
IdleThread ==
    [pc |-> "idle", op |-> "none", tokens |-> 0, wake |-> 0,
     calls |-> 0, granted |-> 0, result |-> FALSE]
NoThreads == [lock |-> "free", of |-> [t \in Threads |-> IdleThread]]

\* the whole seconds that cover wait_time = (tokens - self._tokens) / self.rate
wait_time(l, tokens) == ((tokens - l.tokens) + l.rate - 1) \div l.rate

LimiterFrame ==
    UNCHANGED <<queueVars, graphVars, breaker, clock, bcall, caller, net, dedupVars, gen>>

\* a thread calls acquire(tokens) or try_acquire(tokens)
ThreadCall(t, op, tokens) ==
    /\ threads.of[t].pc = "idle"
    /\ SumOver([u \in Threads |-> threads.of[u].calls], Threads) < MaxCalls
    /\ threads' = [threads EXCEPT !.of[t] =
                      [@ EXCEPT !.pc = "lock", !.op = op, !.tokens = tokens,
                                !.calls = @ + 1, !.result = FALSE]]
    /\ UNCHANGED limiter
    /\ LimiterFrame

\* with self._lock / self._lock.acquire(): the thread gets the lock once it is free
ThreadLock(t) ==
    /\ threads.of[t].pc = "lock"
    /\ threads.lock = "free"
    /\ threads' = [threads EXCEPT !.lock = t, !.of[t] = [@ EXCEPT !.pc = "body"]]
    /\ UNCHANGED limiter
    /\ LimiterFrame

\* under the lock: _refill(), then the tokens are taken and the method
\* returns, or try_acquire returns False, or acquire gives the lock up to sleep
ThreadBody(t) ==
    /\ threads.of[t].pc = "body"
    /\ threads.lock = t
    /\ LET l == _refill(limiter, clock)
           s == threads.of[t]
       IN  IF l.tokens >= s.tokens
               THEN /\ limiter' = [l EXCEPT !.tokens = @ - s.tokens]
                    /\ threads' = [lock |-> "free",
                                   of |-> [threads.of EXCEPT ![t] =
                                      [s EXCEPT !.pc = "idle", !.result = TRUE,
                                                !.granted = @ + s.tokens]]]
           ELSE /\ limiter' = l
                /\ threads' = [lock |-> "free",
                               of |-> [threads.of EXCEPT ![t] =
                                  IF s.op = "try_acquire"
                                      THEN [s EXCEPT !.pc = "idle", !.result = FALSE]
                                  ELSE [s EXCEPT !.pc = "sleep",
                                                 !.wake = clock + wait_time(l, s.tokens)]]]
    /\ LimiterFrame

\* time.sleep(wait_time) is over
ThreadWake(t) ==
    /\ threads.of[t].pc = "sleep"
    /\ clock >= threads.of[t].wake
    /\ threads' = [threads EXCEPT !.of[t] = [@ EXCEPT !.pc = "lock"]]
    /\ UNCHANGED limiter
    /\ LimiterFrame

----------------------------------------------------------------------------
(* OpenAIAdapter.call and call_with_retry (adapters/llm/providers.py:       *)
(* 75-154; KimiAdapter and AliyunAdapter repeat them).  The openai package  *)
(* is installed, so _ensure_client returns.  A caller is a thread inside    *)
(* one adapter, which has one breaker and one limiter.                      *)

Callers == {"c1", "c2"}
RetryCounts == {1, 2}
retry_delay_seconds == 1    \* LLMCallConfig.retry_delay_seconds

\* LLMResponse
LLMResponse(content, error) == [content |-> content, error |-> error]
\* LLMResponse.success
success(r) == r.error = None /\ r.content # ""

BreakerIsOpen == LLMResponse("", Some("Circuit breaker is open"))
NoResponse == LLMResponse("", None)

\* what the provider does with one request
ProviderOutcomes == {"content", "empty", "raise"}

IdleCaller ==
    [pc |-> "idle", retry |-> FALSE, max_retries |-> 0, attempt |-> 0,
     response |-> NoResponse, wake |-> 0, slept |-> <<>>,
     calls |-> 0, requests |-> 0, acquired |-> 0, recorded |-> 0]

RECURSIVE Pow2(_)
Pow2(n) == IF n = 0 THEN 1 ELSE 2 * Pow2(n - 1)

AdapterFrame == UNCHANGED <<queueVars, graphVars, clock, bcall, threads, dedupVars, gen>>

\* adapter.call(prompt, cfg) or adapter.call_with_retry(prompt, cfg, max_retries)
CallerStart(c, retry, max_retries) ==
    /\ caller[c].pc = "idle"
    /\ caller' = [caller EXCEPT ![c] =
                    [IdleCaller EXCEPT !.pc = "check", !.retry = retry,
                                       !.max_retries = max_retries, !.calls = 1]]
    /\ UNCHANGED <<breaker, limiter, net>>
    /\ AdapterFrame

\* call has returned r at time t: the caller of call() is done; the loop of
\* call_with_retry returns a success, sleeps before the next attempt, or
\* gives up after the last one
AfterCall(s, r, t) ==
    IF ~s.retry \/ success(r)
        THEN [s EXCEPT !.pc = "done", !.response = r]
    ELSE IF s.attempt < s.max_retries
        THEN [s EXCEPT !.pc = "sleep", !.response = r,
                       !.wake = t + retry_delay_seconds * Pow2(s.attempt),
                       !.slept = Append(@, retry_delay_seconds * Pow2(s.attempt))]
    ELSE [s EXCEPT !.pc = "done",
                   !.response = LLMResponse("", Some("All retries failed"))]

\* if self._circuit_breaker and not self._circuit_breaker.can_call(): return ...
CallCheck(c) ==
    /\ caller[c].pc = "check"
    /\ LET r == can_call(breaker, clock)
       IN  /\ breaker' = r.breaker
           /\ caller' = [caller EXCEPT ![c] =
                           IF r.result THEN [@ EXCEPT !.pc = "acquire"]
                           ELSE AfterCall(@, BreakerIsOpen, clock)]
    /\ UNCHANGED <<limiter, net>>
    /\ AdapterFrame

\* self._rate_limiter.acquire(): blocks until the bucket holds a token
CallAcquire(c) ==
    /\ caller[c].pc = "acquire"
    /\ _refill(limiter, clock).tokens >= 1
    /\ limiter' = [_refill(limiter, clock) EXCEPT !.tokens = @ - 1]
    /\ caller' = [caller EXCEPT ![c] = [@ EXCEPT !.pc = "request", !.acquired = @ + 1]]
    /\ UNCHANGED <<breaker, net>>
    /\ AdapterFrame

\* self._client.chat.completions.create(...) goes out
CallSend(c) ==
    /\ caller[c].pc = "request"
    /\ net' = net + 1
    /\ caller' = [caller EXCEPT ![c] = [@ EXCEPT !.pc = "inflight", !.requests = @ + 1]]
    /\ UNCHANGED <<breaker, limiter>>
    /\ AdapterFrame

\* the request returns a completion (with or without content) or raises
CallReceive(c, outcome) ==
    /\ caller[c].pc = "inflight"
    /\ IF outcome = "raise"
           THEN /\ breaker' = record_failure(breaker, clock)
                /\ caller' = [caller EXCEPT ![c] =
                                AfterCall([@ EXCEPT !.recorded = @ + 1],
                                          LLMResponse("", Some("timeout")), clock)]
           ELSE /\ breaker' = record_success(breaker)
                /\ caller' = [caller EXCEPT ![c] =
                                AfterCall(@, LLMResponse(IF outcome = "content" THEN "{}" ELSE "",
                                                         None), clock)]
    /\ UNCHANGED <<limiter, net>>
    /\ AdapterFrame

\* time.sleep(delay) is over: the next attempt
RetryWake(c) ==
    /\ caller[c].pc = "sleep"
    /\ clock >= caller[c].wake
    /\ caller' = [caller EXCEPT ![c] =
                    [@ EXCEPT !.pc = "check", !.attempt = @ + 1, !.calls = @ + 1]]
    /\ UNCHANGED <<breaker, limiter, net>>
    /\ AdapterFrame

\* an adapter nobody has called
InitLLM ==
    /\ breaker = SimpleCircuitBreaker(1, 1, 1)
    /\ clock = 1
    /\ bcall = NoOp
    /\ limiter = TokenBucketRateLimiter(1, 1)
    /\ caller = [c \in Callers |-> IdleCaller]
    /\ net = 0
    /\ threads = NoThreads


----------------------------------------------------------------------------
(* NewsDeduplicator (agents/agent1.py:44-60) with tools.simhash and         *)
(* tools.hamming_distance (utils/tool_function.py:89-108).  A text is the   *)
(* list of its tokens, lower-cased and split at white space; the hash has   *)
(* HashBits bits (the code's default is 64).                                *)

HashBits == 8     \* width of a simhash
MaxChecks == 3    \* is_duplicate calls on one NewsDeduplicator

\* int(hashlib.md5(token.encode()).hexdigest(), 16), its low 16 bits
md5(token) ==
    CASE token = "sec" -> 41479
      [] token = "approves" -> 62069
      [] token = "bitcoin" -> 22426
      [] token = "etf" -> 36414

\* (h >> i) & 1
Bit(h, i) == (h \div Pow2(i)) % 2

\* v[i] after every token has voted
Vote(tokens, i) ==
    LET RECURSIVE V(_)
        V(k) == IF k = 0 THEN 0
                ELSE V(k - 1) + (IF Bit(md5(tokens[k]), i) = 1 THEN 1 ELSE -1)
    IN  V(Len(tokens))

\* tools.simhash(text, bits)
simhash(tokens, bits) ==
    LET RECURSIVE H(_)
        H(i) == IF i = bits THEN 0
                ELSE (IF Vote(tokens, i) > 0 THEN Pow2(i) ELSE 0) + H(i + 1)
    IN  H(0)

\* tools.hamming_distance(h1, h2) = bin(h1 ^ h2).count("1")
hamming_distance(h1, h2) ==
    Cardinality({i \in 0..(HashBits - 1) : Bit(h1, i) # Bit(h2, i)})

Thresholds == {1, 3}

\* the texts of a batch
Texts ==
    { <<"sec">>, <<"approves">>, <<"bitcoin">>, <<"sec", "approves", "bitcoin">>,
      <<"sec", "approves", "etf">>, <<"sec", "sec", "approves">> }

\* NewsDeduplicator.__init__
NewsDeduplicator(threshold) == [threshold |-> threshold, seen_hashes |-> {}]

\* is_duplicate: the value returned and the deduplicator afterwards
is_duplicate(d, text) ==
    LET h == simhash(text, HashBits)
        dup == \E seen_h \in d.seen_hashes : hamming_distance(h, seen_h) <= d.threshold
    IN  [dup |-> dup,
         dedup |-> IF dup THEN d ELSE [d EXCEPT !.seen_hashes = @ \cup {h}]]

IsDuplicate(text) ==
    /\ Len(checked) < MaxChecks
    /\ dedup' = is_duplicate(dedup, text).dedup
    /\ checked' = Append(checked, [h |-> simhash(text, HashBits),
                                   dup |-> is_duplicate(dedup, text).dup])
    /\ UNCHANGED <<queueVars, graphVars, llmVars, gen>>

\* no deduplicator is in play
InitDedup ==
    /\ dedup = NewsDeduplicator(3)
    /\ checked = <<>>

\* no candidate generator has run
InitGen == gen = [op |-> "none"]

InitExt == InitLLM /\ InitDedup /\ InitGen

----------------------------------------------------------------------------
(* Specification: two concurrent workers on one queue *)

NoRet == [op |-> "none", n |-> 0]

InitGraph ==
    /\ entities = <<>>
    /\ relations = {}
    /\ participants = {}
    /\ events = <<>>
    /\ event_edges = <<>>
    /\ applied = [a \in Appliers |-> IdleApplier]

\* the store after construction
InitStore ==
    /\ tasks = <<>>
    /\ decisions = <<>>
    /\ now = 0
    /\ worker = [w \in Workers |-> IdleWorker]
    /\ hist = <<>>
    /\ ret = NoRet
    /\ InitGraph

Init == InitStore /\ InitExt

Next ==
    \/ \E c \in EntityCandidates : Enqueue(c) /\ UNCHANGED ret
    \/ WorkerStart("w1", ENTITY_MERGE_REVIEW, 2)
    \/ WorkerStart("w2", ENTITY_MERGE_REVIEW, 1)
    \/ \E w \in Workers : WorkerClaim(w)
    \/ \E w \in Workers : \E o \in FewOutcomes(worker[w].task_type) : WorkerProcess(w, o)
    \/ \E w \in Workers : WorkerCompleteDone(w)
    \/ /\ \E i \in TaskIds : tasks[i].status = RUNNING
       /\ \E m \in MaxAges : RequeueStale(m) /\ UNCHANGED ret
    \/ (\E i \in TaskIds : tasks[i].status = RUNNING) /\ Tick

Spec == Init /\ [][Next]_vars

----------------------------------------------------------------------------
(* Specification: one worker, every kind of adjudicator answer, and the     *)
(* values the queue operations return                                       *)

NextQueue ==
    \/ \E c \in EntityCandidates \cup EventCandidates :
          /\ Enqueue(c)
          /\ ret' = [op |-> IF HasDecision(InputHash(c.payload)) THEN "enqueue_decided"
                            ELSE "enqueue", n |-> Len(tasks') - Len(tasks)]
    \/ \E t \in ReviewTaskType, m \in RunSizes : WorkerStart("w1", t, m)
    \/ WorkerClaim("w1")
    \/ \E o \in AllOutcomes(worker["w1"].task_type) : WorkerProcess("w1", o)
    \/ WorkerCompleteDone("w1")
    \/ WorkerCompleteError("w1")
    \/ \E m \in MaxAges :
          RequeueStale(m) /\ ret' = requeue_stale_review_tasks(m)
    \/ (\E i \in TaskIds : tasks[i].status = RUNNING) /\ Tick

SpecQueue == Init /\ [][NextQueue]_vars

----------------------------------------------------------------------------
(* Specification: the entity merge applier, run twice side by side over     *)
(* recorded decisions                                                       *)

IdA == canonical_entity_id(NameA)
IdB == canonical_entity_id(NameB)
IdC == canonical_entity_id(NameC)

\* a review task that a worker completed with the answer out, and the
\* decision it recorded
DoneTask(c, out) ==
    [NewTask(c.type, c.payload, c.priority) EXCEPT
        !.status = DONE, !.claimed_at = 0, !.output = Some(out)]

Decided(c, out) == [type |-> c.type, input_hash |-> InputHash(c.payload), output |-> out]

\* answers to an entity pair (a, b): merge into a, into b (padded), under a
\* third name, or no merge
EntityVerdicts(a, b) ==
    { EntityOut("true", Some(a)),
      EntityOut("true", Some(<<" ">> \o b \o <<" ">>)),
      EntityOut("true", Some(<<"A", "c", "m", "e">>)),
      EntityOut("false", None) }

FirstSeens == {1, 2}

SrcWire == Src("s1", "http://wire/1", "Wire")
SrcWireCopy == Src("s1", "http://wire/1", "Wire (mirror)")
SrcBlog == Src("s2", "http://blog/2", "Blog")

\* original_forms of the second entity: its name only, or also the third
\* entity's name
FormChoices == { <<NameB>>, <<NameB, NameC>> }

\* the queue after the workers are through: every task done, the decisions
\* ds recorded
InitQueueDecided(ts, ds) ==
    /\ tasks = ts
    /\ decisions = ds
    /\ now = 0
    /\ worker = [w \in Workers |-> IdleWorker]
    /\ hist = [i \in 1..Len(ts) |-> 1]
    /\ ret = NoRet
    /\ InitExt

InitMerge ==
    /\ \E o1 \in EntityVerdicts(NameA, NameB), o2 \in EntityVerdicts(NameA, NameC) :
          LET c1 == EntityCandidate(NameA, NameB, 1000, "original_forms_match")
              c2 == EntityCandidate(NameA, NameC, 923, "name_similarity")
          IN  InitQueueDecided(<<DoneTask(c1, o1), DoneTask(c2, o2)>>,
                               <<Decided(c1, o1), Decided(c2, o2)>>)
    /\ \E fa \in FirstSeens, fb \in FirstSeens, forms \in FormChoices :
          entities =
              (IdA :> Entity(NameA, fa, <<SrcWire>>, <<NameA>>, {"ACME"})
               @@ IdB :> Entity(NameB, fb, <<SrcWireCopy, SrcBlog>>, forms, {"Acme Company"})
               @@ IdC :> Entity(NameC, 2, <<SrcBlog>>, <<NameC>>, {}))
    /\ relations = << RelationTriple(Ev1, IdA, "acquires", IdB, Some(1)),
                      RelationTriple(Ev2, IdB, "sues", IdC, Some(2)) >>
    /\ participants = << Participant(Ev1, IdA, Some(1)), Participant(Ev1, IdB, Some(1)),
                         Participant(Ev2, IdC, Some(2)) >>
    /\ events = (Ev1 :> Event("a1", 1, {NameA, NameB}) @@ Ev2 :> Event("a2", 2, {NameB, NameC}))
    /\ event_edges = <<>>
    /\ applied = [a \in Appliers |-> IdleApplier]

NextMerge ==
    \/ \E a \in Appliers, m \in ActionLimits : ApplierStart(a, ENTITY_MERGE_REVIEW, m)
    \/ \E a \in Appliers : ApplyEntityDecision(a)
    \/ \E a \in Appliers : ApplierReturn(a)

SpecMerge == InitMerge /\ [][NextMerge]_vars

----------------------------------------------------------------------------
(* Specification: the event applier, run and re-run over recorded          *)
(* decisions, and the store's writes of time-bearing rows                   *)

RelationInputs ==
    { RelationTriple(Ev1, IdA, "acquires", IdB, Some(1)),
      RelationTriple(Ev1, IdA, "acquires", IdB, None),
      RelationTriple(Ev2, <<>>, "acquires", IdB, Some(2)) }

ParticipantInputs ==
    { Participant(Ev2, IdB, Some(2)), Participant(Ev2, IdB, None) }

EdgeInputs ==
    { EventEdge(Ev1, Ev3, "follows", Some(1), Some(1), 0),
      EventEdge(Ev1, Ev3, "follows", None, Some(1), 0) }

InitEdge ==
    /\ \E o1 \in { EventOut("evolve", "escalates", ""), EventOut("merge", Absent, "a2"),
                   EventOut("separate", Absent, Absent) },
          o2 \in { EventOut("evolve", Absent, Absent), EventOut("evolve", "escalates", "") },
          twice \in BOOLEAN :
          LET c1 == EventCandidate(PayloadTable[3].event_a, PayloadTable[3].event_b, 2)
              c2 == EventCandidate(PayloadTable[4].event_a, PayloadTable[4].event_b, 3)
              c3 == EventCandidate(PayloadTable[5].event_a, PayloadTable[5].event_b, 2)
              o3 == EventOut("evolve", "causes", "")
              \* the first task was adjudicated twice (it was requeued while
              \* its first holder was still at work)
              again == IF twice THEN <<Decided(c1, EventOut("evolve", "escalates", ""))>>
                       ELSE <<>>
          IN  InitQueueDecided(
                  <<DoneTask(c1, o1), DoneTask(c2, o2), DoneTask(c3, o3)>>,
                  <<Decided(c1, o1)>> \o again \o <<Decided(c2, o2), Decided(c3, o3)>>)
    /\ entities = (IdA :> Entity(NameA, 1, <<SrcWire>>, <<NameA>>, {})
                   @@ IdB :> Entity(NameB, 1, <<SrcBlog>>, <<NameB>>, {}))
    /\ relations = <<>>
    /\ participants = <<>>
    /\ events = (Ev1 :> Event("a1", 1, {NameA, NameB})
                 @@ Ev2 :> Event("a2", 2, {NameA, NameB})
                 @@ Ev3 :> Event("a3", 3, {NameA, NameB})
                 @@ Ev4 :> Event("a4", 2, {NameA, NameB}))
    /\ event_edges = <<>>
    /\ applied = [a \in Appliers |-> IdleApplier]

NextEdge ==
    \/ \E m \in ActionLimits : ApplierStart("p1", EVENT_MERGE_OR_EVOLVE_REVIEW, m)
    \/ ApplyEventDecision("p1")
    \/ ApplierReturn("p1")
    \/ \E r \in RelationInputs : UpsertRelation(r)
    \/ \E p \in ParticipantInputs : UpsertParticipant(p)
    \/ \E e \in EdgeInputs : UpsertEdge(e)
    \/ applied["p1"].pc = "run" /\ Tick

SpecEdge == InitEdge /\ [][NextEdge]_vars

----------------------------------------------------------------------------
(* Review queue: properties *)

InFlight(w) == worker[w].pc \in {"process", "complete"}

AllowedTransitions ==
    { <<PENDING, RUNNING>>, <<RUNNING, DONE>>, <<RUNNING, FAILED>>, <<RUNNING, PENDING>> }

Malformed(type, text) ==
    LET parsed == extract_json_from_llm_response(text)
    IN  IsEmptyText(text) \/ ~parsed.ok \/ ~HasVerdictFields(type, parsed.value)

C9_MalformedFails ==
    [][\A o \in AllOutcomes(worker["w1"].task_type) :
          (/\ WorkerProcess("w1", o)
           /\ ~o.raised
           /\ Malformed(worker["w1"].task_type, o.text)) =>
              LET i == worker["w1"].task_id
              IN  /\ tasks'[i].status = FAILED
                  /\ tasks'[i].error # Null
                  /\ decisions' = decisions]_vars

\* C10: a failure marks only the task at hand failed and the loop goes on;
\* a worker that has returned completed every task it claimed: done + failed
\* is the number of its claims, at most max_tasks, and none is still running.
C10_Returned ==
    \A w \in Workers :
        worker[w].pc = "returned" =>
            /\ worker[w].done + worker[w].failed = worker[w].iter
            /\ worker[w].iter = Cardinality(worker[w].claimed)
            /\ worker[w].iter <= worker[w].max_tasks
            /\ \A i \in worker[w].claimed : tasks[i].status # RUNNING

C10_FailureIsolated ==
    \A w \in Workers :
        (InFlight(w) /\ worker'[w].failed = worker[w].failed + 1) =>
            LET i == worker[w].task_id
            IN  /\ worker'[w].pc = "claim"
                /\ tasks'[i].status = FAILED
                /\ \A j \in TaskIds \ {i} : tasks'[j] = tasks[j]

----------------------------------------------------------------------------
(* Appliers and canonical store: properties *)

EntityIds == {IdA, IdB, IdC}

\* applier a called merge_entities / merge_events in this step
MergeCall(a) == applied'[a].i = applied[a].i + 1 /\ applied'[a].last.status # "none"

C4_Twice ==
    \A x \in EntityIds : \A y \in EntityIds \ {x} :
        LET once == merge_entities(Graph, x, y)
            twice == merge_entities(once.g, x, y)
        IN  twice.status = "skipped" /\ twice.g = once.g

C4_Reapplied ==
    /\ DOMAIN entities' \subseteq DOMAIN entities
    /\ \A a \in Appliers :
          (MergeCall(a) /\ applied'[a].last.from_id \notin DOMAIN entities) =>
              /\ applied'[a].last.status = "skipped"
              /\ applied'[a].skipped = applied[a].skipped + 1
              /\ UNCHANGED <<entities, relations, participants, events, event_edges>>

C6_TimePresent ==
    /\ \A i \in 1..Len(relations) : relations[i].time # None
    /\ \A i \in 1..Len(participants) : participants[i].time # None
    /\ \A i \in 1..Len(event_edges) : event_edges[i].time # None

C6_NullRejected ==
    /\ \A r \in RelationInputs :
          (UpsertRelation(r) /\ r.time = None) => (relations' = relations /\ ret'.n = 0)
    /\ \A p \in ParticipantInputs :
          (UpsertParticipant(p) /\ p.time = None) =>
              (participants' = participants /\ ret'.n = 0)
    /\ \A e \in EdgeInputs :
          (UpsertEdge(e) /\ e.time = None) => (event_edges' = event_edges /\ ret'.n = 0)

C7_OneRowPerKey ==
    \A i \in 1..Len(event_edges) : \A j \in 1..Len(event_edges) :
        EdgeKey(event_edges[i]) = EdgeKey(event_edges[j]) => i = j

C7_Overwrite ==
    (applied'["p1"].edges = applied["p1"].edges + 1) =>
        LET r == applied["p1"].rows[applied["p1"].i + 1]
            p == applied["p1"].task_map[r.input_hash]
            key == <<p.event_a.event_id, p.event_b.event_id, EdgeTypeOf(r.output)>>
            old == {i \in 1..Len(event_edges) : EdgeKey(event_edges[i]) = key}
        IN  /\ Len(event_edges') = Len(event_edges) + (IF old = {} THEN 1 ELSE 0)
            /\ \E i \in 1..Len(event_edges') :
                  /\ EdgeKey(event_edges'[i]) = key
                  /\ event_edges'[i].reported_at = Some(now)
                  /\ old # {} => i \in old
            /\ \A i \in 1..Len(event_edges) \ old : event_edges'[i] = event_edges[i]

\* C7: event_edges never holds two rows with one (from_event_id,
\* to_event_id, edge_type), and an evolve decision applied on a key that has
\* a row overwrites that row instead of adding one.
C7_EdgeUpsert == []C7_OneRowPerKey /\ [][C7_Overwrite]_vars

\* one run applied two evolve decisions and the table holds one row
C7_Witness ==
    /\ applied["p1"].edges = 2
    /\ Len(event_edges) = 1

\* the forms of res: those of a and b, stripped, blanks dropped, one per
\* normalized name
FormsMerged(res, a, b) ==
    /\ \A i \in 1..Len(res) : \A j \in 1..Len(res) :
          normalize_entity_name(res[i]) = normalize_entity_name(res[j]) => i = j
    /\ Range(res) \subseteq {strip(f) : f \in Range(a) \cup Range(b)}
    /\ {normalize_entity_name(f) : f \in Range(res)} =
          {normalize_entity_name(f) : f \in {g \in Range(a) \cup Range(b) : strip(g) # <<>>}}

\* the sources of res: those of a and b, one per (id, url)
SourcesMerged(res, a, b) ==
    /\ \A i \in 1..Len(res) : \A j \in 1..Len(res) :
          SourceKey(res[i]) = SourceKey(res[j]) => i = j
    /\ Range(res) \subseteq Range(a) \cup Range(b)
    /\ {SourceKey(x) : x \in Range(res)} = {SourceKey(x) : x \in Range(a) \cup Range(b)}

\* what a first merge from x into y leaves besides sources and original_forms
C8_Rekeyed(x, y) ==
    /\ x \notin DOMAIN entities'
    /\ entities'[y].aliases = entities[x].aliases \cup entities[y].aliases
    /\ entities'[y].first_seen = Min(entities[x].first_seen, entities[y].first_seen)
    /\ Len(relations') = Len(relations)
    /\ \A i \in 1..Len(relations) :
          /\ relations'[i].subject_entity_id =
                Rewrite(relations[i].subject_entity_id, x, y)
          /\ relations'[i].object_entity_id = Rewrite(relations[i].object_entity_id, x, y)
          /\ x \notin {relations'[i].subject_entity_id, relations'[i].object_entity_id}
    /\ Len(participants') = Len(participants)
    /\ \A i \in 1..Len(participants) :
          /\ participants'[i].entity_id = Rewrite(participants[i].entity_id, x, y)
          /\ participants'[i].entity_id # x

FirstMerge(a) == MergeCall(a) /\ applied'[a].last.status = "merged"

----------------------------------------------------------------------------
(* Specification: one SimpleCircuitBreaker under every order of its         *)
(* operations                                                               *)

InitBreaker ==
    /\ InitStore
    /\ \E ft \in FailureThresholds, rt \in RecoveryTimeouts, hm \in HalfOpenMaxCalls :
          breaker = SimpleCircuitBreaker(ft, rt, hm)
    /\ clock = 1
    /\ bcall = NoOp
    /\ limiter = TokenBucketRateLimiter(1, 1)
    /\ caller = [c \in Callers |-> IdleCaller]
    /\ net = 0
    /\ threads = NoThreads
    /\ InitDedup
    /\ InitGen

NextBreaker ==
    \/ BreakerCanCall
    \/ BreakerState
    \/ BreakerRecordSuccess
    \/ BreakerRecordFailure
    \/ BreakerReset
    \/ ClockTick

SpecBreaker == InitBreaker /\ [][NextBreaker]_vars

\* the last operation of this step
Ran(op) == bcall'.n = bcall.n + 1 /\ bcall'.op = op

\* seconds since the last recorded failure
SinceFailure == clock - breaker.last_failure_time[1]

CooledDown == SinceFailure >= breaker.recovery_timeout

\* the four listed changes of state, each with its cause
C11_Listed ==
    \/ /\ breaker.state = CLOSED /\ breaker'.state = OPEN
       /\ Ran("record_failure")
       /\ bcall'.streak >= breaker.failure_threshold
    \/ /\ breaker.state = OPEN /\ breaker'.state = HALF_OPEN
       /\ Ran("can_call") \/ Ran("state")
       /\ CooledDown
    \/ /\ breaker.state = HALF_OPEN /\ breaker'.state = CLOSED
       /\ Ran("record_success")
       /\ breaker'.failure_count = 0
    \/ /\ breaker.state = HALF_OPEN /\ breaker'.state = OPEN
       /\ Ran("record_failure")

\* reset() closes the breaker from any state and clears its counters
C11_Reset ==
    /\ Ran("reset")
    /\ breaker'.state = CLOSED
    /\ breaker'.failure_count = 0
    /\ breaker'.last_failure_time = None

\* each recorded outcome and each check has the listed effect
C11_Effects ==
    /\ (Ran("record_failure") /\ breaker.state = CLOSED) =>
          (breaker'.state = OPEN <=> bcall'.streak >= breaker.failure_threshold)
    /\ (Ran("record_success") /\ breaker.state = CLOSED) =>
          (breaker'.state = CLOSED /\ breaker'.failure_count = 0)
    /\ (Ran("record_success") /\ breaker.state = HALF_OPEN) =>
          (breaker'.state = CLOSED /\ breaker'.failure_count = 0)
    /\ (Ran("record_failure") /\ breaker.state = HALF_OPEN) => breaker'.state = OPEN
    /\ ((Ran("can_call") \/ Ran("state")) /\ breaker.state = OPEN /\ CooledDown) =>
          breaker'.state = HALF_OPEN
    /\ (Ran("can_call") /\ breaker.state = OPEN /\ ~CooledDown) =>
          (breaker'.state = OPEN /\ bcall'.result = FALSE)

\* an open breaker has a recorded failure to count the cooldown from
C11_OpenHasFailure == breaker.state = OPEN => breaker.last_failure_time # None

\* C11 as stated: the state of a SimpleCircuitBreaker changes only by
\* closed->open, open->half_open, half_open->closed and half_open->open.
C11_OnlyListed == [][breaker'.state # breaker.state => C11_Listed]_vars

\* C11: the state of a SimpleCircuitBreaker changes only by closed->open on
\* the failure_threshold-th failure in a row, open->half_open once
\* recovery_timeout has passed since the last failure, half_open->closed on a
\* success, half_open->open on a failure, or to closed by reset(); and while
\* open before the cooldown has passed can_call() is false.
C11_Transitions ==
    /\ []C11_OpenHasFailure
    /\ [][(breaker'.state # breaker.state => C11_Listed \/ C11_Reset) /\ C11_Effects]_vars

\* the breaker opened, cooled down, was probed and closed on the success
C11_Witness ==
    /\ breaker.state = CLOSED
    /\ breaker.failure_threshold = 2
    /\ breaker.half_open_calls = 1
    /\ breaker.failure_count = 0
    /\ breaker.last_failure_time # None
    /\ bcall.op = "record_success"

----------------------------------------------------------------------------
(* Specification: two threads call one adapter, which guards the provider   *)
(* with a breaker and a limiter                                             *)

InitAdapter ==
    /\ InitStore
    /\ \E rt \in RecoveryTimeouts : breaker = SimpleCircuitBreaker(2, rt, 1)
    /\ clock = 1
    /\ bcall = NoOp
    /\ limiter = TokenBucketRateLimiter(1, 1)
    /\ caller = [c \in Callers |-> IdleCaller]
    /\ net = 0
    /\ threads = NoThreads
    /\ InitDedup
    /\ InitGen

NextAdapter ==
    \/ \E m \in RetryCounts : CallerStart("c1", TRUE, m)
    \/ CallerStart("c2", FALSE, 0)
    \/ \E c \in Callers : CallCheck(c)
    \/ \E c \in Callers : CallAcquire(c)
    \/ \E c \in Callers : CallSend(c)
    \/ \E c \in Callers, o \in ProviderOutcomes : CallReceive(c, o)
    \/ \E c \in Callers : RetryWake(c)
    \/ ClockTick

SpecAdapter == InitAdapter /\ [][NextAdapter]_vars

\* the breaker is open and its cooldown has not passed
StillOpen == breaker.state = OPEN /\ ~CooledDown

\* C12: a call that meets the open breaker before its cooldown has passed
\* returns the error response in that step: it sends no request, takes no
\* limiter token and records neither a success nor a failure.
C12_FailFast ==
    [][\A c \in Callers :
          (caller[c].pc = "check" /\ StillOpen /\ caller'[c] # caller[c]) =>
              /\ caller'[c].pc \in {"done", "sleep"}
              /\ caller'[c].pc = "done" /\ ~caller[c].retry =>
                    caller'[c].response = BreakerIsOpen
              /\ caller'[c].requests = caller[c].requests
              /\ caller'[c].acquired = caller[c].acquired
              /\ caller'[c].recorded = caller[c].recorded
              /\ net' = net
              /\ limiter' = limiter
              /\ breaker' = breaker]_vars

\* a plain call came back with the breaker's error and never left the adapter
C12_Witness ==
    /\ caller["c2"].pc = "done"
    /\ caller["c2"].response = BreakerIsOpen
    /\ caller["c2"].requests = 0
    /\ breaker.state = OPEN
    /\ net >= 2

\* attempts of call_with_retry: at most max_retries + 1, none after a success,
\* and before attempt k the delays slept were 1, 2, ..., 2^(k-1) times
\* retry_delay_seconds
C13_Attempts ==
    \A c \in Callers :
        /\ caller[c].calls <= caller[c].max_retries + 1
        /\ caller[c].calls = (IF caller[c].pc = "idle" THEN 0 ELSE caller[c].attempt + 1)
        /\ Len(caller[c].slept) \in {caller[c].attempt, caller[c].attempt + 1}
        /\ \A k \in 1..Len(caller[c].slept) :
              caller[c].slept[k] = retry_delay_seconds * Pow2(k - 1)
        /\ (caller[c].pc = "done" /\ caller[c].retry /\ ~success(caller[c].response)) =>
              caller[c].calls = caller[c].max_retries + 1

\* C13: call_with_retry has recorded no breaker failure while attempts are
\* left, and exactly one once the retries are exhausted.
C13_OneFailurePerCall ==
    \A c \in Callers :
        caller[c].retry =>
            /\ caller[c].pc # "done" => caller[c].recorded = 0
            /\ (caller[c].pc = "done" /\ ~success(caller[c].response)) =>
                  caller[c].recorded <= 1

----------------------------------------------------------------------------
(* Specification: workers that are run again and again, a periodic          *)
(* requeue_stale, and a worker process that is killed while it holds a task *)

\* the scheduler calls run_review_worker again after it returned
WorkerRerun(w) ==
    /\ worker[w].pc = "returned"
    /\ worker' = [worker EXCEPT ![w] =
                    [IdleWorker EXCEPT !.pc = "claim",
                                       !.task_type = worker[w].task_type,
                                       !.max_tasks = worker[w].max_tasks]]
    /\ UNCHANGED <<tasks, decisions, now, hist, ret>>
    /\ UNCHANGED <<graphVars, extVars>>

\* the process of worker w is killed between claim_next and complete, while
\* time still has room for the lease to expire
WorkerCrash(w) ==
    /\ worker[w].pc \in {"process", "complete"}
    /\ now < MaxTime
    /\ worker' = [worker EXCEPT ![w].pc = "crashed"]
    /\ UNCHANGED <<tasks, decisions, now, hist, ret>>
    /\ UNCHANGED <<graphVars, extVars>>

\* the periodic job: requeue_stale_review_tasks with the lease length as
\* threshold (one tick of the clock)
PeriodicRequeue == RequeueStale(0) /\ UNCHANGED ret

\* time passes while the lease of a killed worker is out
LeaseTick ==
    /\ \E w \in Workers : worker[w].pc = "crashed" /\ tasks[worker[w].task_id].status = RUNNING
    /\ Tick

NextLive ==
    \/ Enqueue(EntityCandidate(NameA, NameB, 1000, "original_forms_match")) /\ UNCHANGED ret
    \/ \E w \in Workers : WorkerStart(w, ENTITY_MERGE_REVIEW, 1)
    \/ \E w \in Workers : WorkerRerun(w)
    \/ \E w \in Workers : WorkerClaim(w)
    \/ \E w \in Workers : \E o \in FewOutcomes(worker[w].task_type) : WorkerProcess(w, o)
    \/ \E w \in Workers : WorkerCompleteDone(w)
    \/ WorkerCrash("w1")
    \/ PeriodicRequeue
    \/ LeaseTick

\* the next step of worker w: at each position of the worker exactly one of
\* these is enabled
WorkerStep(w) ==
    \/ WorkerStart(w, ENTITY_MERGE_REVIEW, 1)
    \/ WorkerRerun(w)
    \/ WorkerClaim(w)
    \/ \E o \in FewOutcomes(worker[w].task_type) : WorkerProcess(w, o)
    \/ WorkerCompleteDone(w)

\* workers keep being run and keep taking their steps, the requeue job keeps
\* running, time passes
Fairness ==
    /\ \A w \in Workers : WF_vars(WorkerStep(w))
    /\ WF_vars(PeriodicRequeue)
    /\ WF_vars(LeaseTick)

SpecLive == Init /\ [][NextLive]_vars /\ Fairness

Settled(i) == i \in TaskIds /\ tasks[i].status \in {DONE, FAILED}

----------------------------------------------------------------------------
(* review_queue_stats (review_ops.py:526-544) *)

\* select status, count(1) from review_tasks group by status;
\* stats = {r[0]: int(r[1]) for r in rows}
review_queue_stats ==
    [status \in {tasks[i].status : i \in TaskIds} |->
        Cardinality({i \in TaskIds : tasks[i].status = status})]

\* the tool is called; it returns {"status": "ok", "stats": stats, ...}
ReviewQueueStats ==
    /\ ret' = [op |-> "stats", n |-> Len(tasks), stats |-> review_queue_stats]
    /\ UNCHANGED <<tasks, decisions, now, worker, hist>>
    /\ UNCHANGED <<graphVars, extVars>>

NextStats ==
    \/ \E c \in EntityCandidates : Enqueue(c) /\ UNCHANGED ret
    \/ \E m \in RunSizes : WorkerStart("w1", ENTITY_MERGE_REVIEW, m)
    \/ WorkerClaim("w1")
    \/ \E o \in FewOutcomes(worker["w1"].task_type) : WorkerProcess("w1", o)
    \/ WorkerCompleteDone("w1")
    \/ ReviewQueueStats

SpecStats == Init /\ [][NextStats]_vars

\* the counts returned add up to the number of review tasks
C15_CountsAddUp ==
    ret.op = "stats" => SumOver(ret.stats, DOMAIN ret.stats) = ret.n

\* C15: the stats returned by review_queue_stats hold a count for each of
\* pending, running, done and failed, and the four add up to the number of
\* review tasks.
C15_FourCounts ==
    ret.op = "stats" =>
        /\ DOMAIN ret.stats = ReviewTaskStatus
        /\ SumOver(ret.stats, DOMAIN ret.stats) = ret.n

----------------------------------------------------------------------------
(* Specification: one NewsDeduplicator checks a batch of texts *)

InitBatch ==
    /\ InitStore
    /\ InitLLM
    /\ InitGen
    /\ \E t \in Thresholds : dedup = NewsDeduplicator(t)
    /\ checked = <<>>

NextBatch == \E text \in Texts : IsDuplicate(text)

SpecBatch == InitBatch /\ [][NextBatch]_vars

\* a text within the threshold of a hash the deduplicator remembers is
\* reported as a duplicate, and every first text is kept
C16_AgainstKept ==
    /\ \A h \in dedup.seen_hashes : \E i \in 1..Len(checked) :
          checked[i].h = h /\ ~checked[i].dup
    /\ \A i \in 1..Len(checked) :
          checked[i].dup <=>
              \E j \in 1..(i - 1) :
                  /\ ~checked[j].dup
                  /\ hamming_distance(checked[j].h, checked[i].h) <= dedup.threshold

\* C16: whenever the hash of a text is within the threshold of the hash of a
\* text checked before it, is_duplicate has returned true for the later one.
C16_SecondIsDuplicate ==
    \A i \in 1..Len(checked) : \A j \in (i + 1)..Len(checked) :
        hamming_distance(checked[i].h, checked[j].h) <= dedup.threshold => checked[j].dup

----------------------------------------------------------------------------
(* The decision the appliers act on *)

\* applier a merged or wrote an edge in this step
Acted(a) ==
    /\ applied[a].pc = "run"
    /\ \/ applied'[a].applied > applied[a].applied
       \/ applied'[a].edges > applied[a].edges

\* the row applier a is at is the last one its SELECT returned for that hash
AtLatest(a) ==
    LET rows == applied[a].rows
        k == applied[a].i + 1
    IN  \A m \in (k + 1)..Len(rows) : rows[m].input_hash # rows[k].input_hash

\* C17: an applier merges or writes an edge only for the latest decision
\* recorded for an input_hash, never for one that a later decision for the same
\* hash has superseded.
C17_LatestOnly == [][\A a \in Appliers : Acted(a) => AtLatest(a)]_vars

----------------------------------------------------------------------------
(* Candidate generation for entities (review_ops.py:21-30, 96-172)          *)

MaxEntities == 3    \* entities the store may hold

\* _norm_name(s): strip, lower, drop spaces and common punctuation
_norm_name(s) == SelectSeq(lower(strip(s)), LAMBDA c : c \notin Separators)

Max(a, b) == IF a >= b THEN a ELSE b

\* s[:n]
Take(s, n) == SubSeq(s, 1, Min(Len(s), Max(n, 0)))

RECURSIVE Concat(_)
Concat(seqs) == IF seqs = <<>> THEN <<>> ELSE Head(seqs) \o Concat(Tail(seqs))

\* the elements of s in order of first occurrence
RECURSIVE Uniq(_)
Uniq(s) ==
    IF s = <<>> THEN <<>>
    ELSE LET front == Uniq(SubSeq(s, 1, Len(s) - 1))
             last == s[Len(s)]
         IN  IF \E i \in 1..Len(front) : front[i] = last THEN front ELSE Append(front, last)

\* SequenceMatcher.find_longest_match over the whole of a and b: the longest
\* common block, the one starting earliest in a, then earliest in b
IsBlock(a, b, i, j, k) ==
    /\ i + k - 1 <= Len(a)
    /\ j + k - 1 <= Len(b)
    /\ \A d \in 0..(k - 1) : a[i + d] = b[j + d]

find_longest_match(a, b) ==
    LET sizes == {k \in 1..Min(Len(a), Len(b)) :
                      \E i \in 1..Len(a), j \in 1..Len(b) : IsBlock(a, b, i, j, k)}
    IN  IF sizes = {} THEN [a |-> 1, b |-> 1, size |-> 0]
        ELSE LET k == CHOOSE x \in sizes : \A y \in sizes : y <= x
                 starts == {i \in 1..Len(a) : \E j \in 1..Len(b) : IsBlock(a, b, i, j, k)}
                 i == CHOOSE x \in starts : \A y \in starts : x <= y
                 ends == {j \in 1..Len(b) : IsBlock(a, b, i, j, k)}
                 j == CHOOSE x \in ends : \A y \in ends : x <= y
             IN  [a |-> i, b |-> j, size |-> k]

\* the total size of get_matching_blocks(): the longest block, then the
\* same to its left and to its right
RECURSIVE MatchSize(_, _)
MatchSize(a, b) ==
    LET m == find_longest_match(a, b)
    IN  IF m.size = 0 THEN 0
        ELSE m.size
                 + MatchSize(SubSeq(a, 1, m.a - 1), SubSeq(b, 1, m.b - 1))
                 + MatchSize(SubSeq(a, m.a + m.size, Len(a)), SubSeq(b, m.b + m.size, Len(b)))

\* SequenceMatcher(None, a, b).ratio() = 2.0 * matches / (len(a) + len(b)),
\* in thousandths; 1.0 for two empty strings
ratio(a, b) ==
    IF Len(a) + Len(b) = 0 THEN 1000
    ELSE (2000 * MatchSize(a, b)) \div (Len(a) + Len(b))

_name_sim(a, b) == ratio(_norm_name(a), _norm_name(b))

GenNames == {NameA, NameB, NameC, NameD, NameO}

\* _name_sim and _norm_name on the names of the model, computed once
NameSims == [p \in GenNames \X GenNames |-> _name_sim(p[1], p[2])]
NameKeys == [n \in GenNames \cup {FormF} |-> _norm_name(n)]

\* store.export_entities_json(): name -> record, in the order the store
\* lists its rows
Orderings(S) ==
    {s \in [1..Cardinality(S) -> S] : \A i, j \in 1..Cardinality(S) : i # j => s[i] # s[j]}

EntityNames == {entities[id].name : id \in DOMAIN entities}

export_entities_json(order) ==
    [i \in 1..Len(order) |-> entities[canonical_entity_id(order[i])]]

\* the entries of form_index in insertion order: for each entity its name
\* and original forms, blank ones and those with an empty key left out
KeyedForms(name, forms) ==
    [i \in 1..Len(forms) |-> [key |-> NameKeys[forms[i]], name |-> name]]

FormEntries(rec) ==
    KeyedForms(rec.name, SelectSeq(<<rec.name>> \o rec.original_forms,
                                   LAMBDA f : strip(f) # <<>> /\ NameKeys[f] # <<>>))

form_index(exported) == Concat([i \in 1..Len(exported) |-> FormEntries(exported[i])])

KeysOf(entries) == Uniq([i \in 1..Len(entries) |-> entries[i].key])

NamesIn(hits) == [i \in 1..Len(hits) |-> hits[i].name]

GroupOf(entries, key) == NamesIn(SelectSeq(entries, LAMBDA e : e.key = key))

\* for i in range(len(group)): for j in range(i + 1, len(group)): (group[i], group[j])
PairsOf(group) ==
    Concat([i \in 1..Len(group) |->
               [d \in 1..(Len(group) - i) |-> <<group[i], group[i + d]>>]])

\* an entry of the list pairs: (a, b, score, reason)
ScoredPair(t, sim, why) == [a |-> t[1], b |-> t[2], sim |-> sim, why |-> why]

\* 1) every pair of entities under one key of form_index, score 1.0
GroupPairs(entries, keys) ==
    Concat([n \in 1..Len(keys) |-> PairsOf(Uniq(GroupOf(entries, keys[n])))])

StrongPairs(found) ==
    [n \in 1..Len(found) |-> ScoredPair(found[n], 1000, "original_forms_match")]

FormPairsOf(entries) == StrongPairs(GroupPairs(entries, KeysOf(entries)))

FormPairs(exported) == FormPairsOf(form_index(exported))

\* 2) every pair of names in one bucket of _norm_name(n)[:6] that is
\* similar enough
bucket(n) == Take(NameKeys[n], 6)

BucketKeys(names) == Uniq([i \in 1..Len(names) |-> bucket(names[i])])

BucketGroups(names, keys) ==
    Concat([n \in 1..Len(keys) |-> PairsOf(SelectSeq(names, LAMBDA x : bucket(x) = keys[n]))])

SimilarPairs(found, min_similarity) ==
    SelectSeq([n \in 1..Len(found) |->
                  ScoredPair(found[n], NameSims[found[n]], "name_similarity")],
              LAMBDA p : p.sim >= min_similarity)

BucketPairsOf(names, min_similarity) ==
    SimilarPairs(BucketGroups(names, BucketKeys(names)), min_similarity)

BucketPairs(exported, min_similarity) ==
    BucketPairsOf([i \in 1..Len(exported) |-> exported[i].name], min_similarity)

\* the list pairs: both loops stop as soon as it holds max_pairs entries,
\* and the second is entered only below max_pairs
WithBucketPairs(strong, exported, min_similarity, max_pairs) ==
    IF Len(strong) < max_pairs
        THEN strong \o Take(BucketPairs(exported, min_similarity), max_pairs - Len(strong))
        ELSE strong

CollectedPairs(exported, min_similarity, max_pairs) ==
    WithBucketPairs(Take(FormPairs(exported), max_pairs), exported, min_similarity, max_pairs)

\* the final loop: one call of enqueue_review_task per unordered pair, for
\* the first entry of pairs that names it
Numbered(pairs) == [n \in 1..Len(pairs) |-> [p |-> pairs[n], n |-> n]]

FirstOfPair(pairs) ==
    SelectSeq(Numbered(pairs),
              LAMBDA e : \A m \in 1..(e.n - 1) : {pairs[m].a, pairs[m].b} # {e.p.a, e.p.b})

EntityCall(p) == EntityCandidate(p.a, p.b, p.sim, p.why)

EntityCalls(kept) == [n \in 1..Len(kept) |-> EntityCall(kept[n].p)]

\* seen_pair when the final loop ends
seen_pair(pairs) == {{pairs[k].a, pairs[k].b} : k \in 1..Len(pairs)}

EntityResult(pairs) == [pairs |-> pairs, calls |-> EntityCalls(FirstOfPair(pairs))]

enqueue_entity_merge_candidates(exported, min_similarity, max_pairs) ==
    EntityResult(CollectedPairs(exported, min_similarity, max_pairs))

\* the calls of store.enqueue_review_task, one after the other
RECURSIVE EnqueueCalls(_, _)
EnqueueCalls(queue, calls) ==
    IF calls = <<>> THEN queue
    ELSE EnqueueCalls(IF HasDecision(InputHash(Head(calls).payload)) THEN queue
                      ELSE Append(queue, NewTask(Head(calls).type, Head(calls).payload,
                                                 Head(calls).priority)),
                      Tail(calls))

MinSimilarities == {850, 920}
PairLimits == {1, 2, 200}

\* what the call leaves behind: the tasks enqueued and the returned counts
EntityGenEffects(exported, min_similarity, max_pairs, r) ==
    /\ tasks' = EnqueueCalls(tasks, r.calls)
    /\ hist' = [i \in 1..Len(tasks') |-> 0]
    /\ gen' = [op |-> "entity", exported |-> exported,
               min_similarity |-> min_similarity, max_pairs |-> max_pairs,
               pairs |-> r.pairs, calls |-> r.calls]
    /\ ret' = [op |-> "enqueue_entity", n |-> Len(r.calls),
               candidates |-> Cardinality(seen_pair(r.pairs))]

EntityGenRun(exported, min_similarity, max_pairs) ==
    EntityGenEffects(exported, min_similarity, max_pairs,
                     enqueue_entity_merge_candidates(exported, min_similarity, max_pairs))

\* enqueue_entity_merge_candidates(min_similarity, max_pairs), on an empty queue
EnqueueEntityMergeCandidates(order, min_similarity, max_pairs) ==
    /\ tasks = <<>>
    /\ EntityGenRun(export_entities_json(order), min_similarity, max_pairs)
    /\ UNCHANGED <<decisions, now, worker, graphVars, llmVars, dedupVars>>

\* the stores the generator is run on: up to MaxEntities entities, each with
\* no original form or the shared one
EntityStore(names, forms) ==
    [id \in {canonical_entity_id(n) : n \in names} |->
        LET n == CHOOSE x \in names : canonical_entity_id(x) = id
        IN  Entity(n, 1, <<>>, forms[n], {})]

EntityStores ==
    UNION { {EntityStore(names, forms) : forms \in [names -> {<<>>, <<FormF>>}]} :
              names \in {S \in SUBSET GenNames : Cardinality(S) <= MaxEntities} }

InitEntityGen ==
    /\ InitQueueDecided(<<>>, <<>>)
    /\ entities \in EntityStores
    /\ relations = <<>>
    /\ participants = <<>>
    /\ events = <<>>
    /\ event_edges = <<>>
    /\ applied = [a \in Appliers |-> IdleApplier]

\* one run of the generator on each store
NextEntityGen ==
    /\ gen.op = "none"
    /\ \E s \in MinSimilarities, m \in PairLimits :
          \E order \in Orderings(EntityNames) : EnqueueEntityMergeCandidates(order, s, m)

SpecEntityGen == InitEntityGen /\ [][NextEntityGen]_vars

\* the keys an entity is indexed under: its normalized name and original forms
FormKeys(rec) ==
    {NameKeys[f] : f \in {rec.name} \cup {rec.original_forms[i] : i \in 1..Len(rec.original_forms)}}
        \ {<<>>}

SharesForm(ra, rb) == FormKeys(ra) \cap FormKeys(rb) # {}

SimilarInBucket(ra, rb, min_similarity) ==
    /\ bucket(ra.name) = bucket(rb.name)
    /\ NameSims[<<ra.name, rb.name>>] >= min_similarity

\* the unordered pairs of exported entities that qualify as candidates
QualifyingPairs ==
    {{gen.exported[i].name, gen.exported[j].name} : <<i, j>> \in
        {t \in (1..Len(gen.exported)) \X (1..Len(gen.exported)) :
            /\ t[1] < t[2]
            /\ \/ SharesForm(gen.exported[t[1]], gen.exported[t[2]])
               \/ SimilarInBucket(gen.exported[t[1]], gen.exported[t[2]], gen.min_similarity)}}

EnqueuedPairs ==
    {{gen.calls[n].payload.entity_a, gen.calls[n].payload.entity_b} : n \in 1..Len(gen.calls)}

RecordOf(name) == gen.exported[CHOOSE i \in 1..Len(gen.exported) : gen.exported[i].name = name]

\* an enqueued candidate carries the score and reason of the rule that found it
WellScored(p) ==
    IF SharesForm(RecordOf(p.entity_a), RecordOf(p.entity_b))
        THEN p.similarity = 1000 /\ p.candidate_reason = "original_forms_match"
        ELSE /\ p.similarity = NameSims[<<p.entity_a, p.entity_b>>]
             /\ p.candidate_reason = "name_similarity"
             /\ SimilarInBucket(RecordOf(p.entity_a), RecordOf(p.entity_b), gen.min_similarity)

\* What the generator guarantees: every enqueued pair qualifies and carries
\* the score and reason of its rule, no unordered pair is enqueued twice, at
\* most max_pairs pairs are enqueued, the tasks are in the queue, and when the
\* list of found pairs stayed below max_pairs every qualifying pair is enqueued.
C18_Enqueued ==
    gen.op = "entity" =>
        /\ EnqueuedPairs \subseteq QualifyingPairs
        /\ \A n \in 1..Len(gen.calls) : WellScored(gen.calls[n].payload)
        /\ Cardinality(EnqueuedPairs) = Len(gen.calls)
        /\ Len(gen.calls) <= gen.max_pairs
        /\ Len(tasks) = Len(gen.calls)
        /\ \A n \in 1..Len(tasks) : tasks[n].payload = gen.calls[n].payload
        /\ Len(gen.pairs) < gen.max_pairs => EnqueuedPairs = QualifyingPairs

\* C18: enqueue_entity_merge_candidates enqueues exactly the qualifying
\* unordered pairs (a shared normalized name or original form, or one prefix
\* bucket and similarity >= min_similarity), each once, up to max_pairs of
\* them: as many as qualify, or max_pairs when more qualify.
C18_ExactlyQualifying ==
    gen.op = "entity" =>
        /\ EnqueuedPairs \subseteq QualifyingPairs
        /\ Cardinality(EnqueuedPairs) = Len(gen.calls)
        /\ Len(gen.calls) = Min(gen.max_pairs, Cardinality(QualifyingPairs))

\* the spec's example: two spellings of one name and an unrelated entity
\* give exactly the one pair
C18_Example ==
    /\ gen.op = "entity"
    /\ {gen.exported[i].name : i \in 1..Len(gen.exported)} = {NameA, NameB, NameO}
    /\ \A i \in 1..Len(gen.exported) : gen.exported[i].original_forms = <<>>
    /\ gen.min_similarity = 920
    /\ gen.max_pairs = 200
    /\ EnqueuedPairs = {{NameA, NameB}}
    /\ Len(gen.calls) = 1

\* Python's round(sim * 100) on a similarity in thousandths: the nearest
\* integer, a half going to the even one
RoundPercent(sim) ==
    LET q == (sim * 100) \div 1000
        r == (sim * 100) % 1000
    IN  IF r > 500 \/ (r = 500 /\ q % 2 = 1) THEN q + 1 ELSE q

\* What the generator guarantees: the priority of an entity candidate is
\* similarity * 100 with the fraction cut off.
C20_EntityPriorityTruncated ==
    gen.op = "entity" =>
        \A n \in 1..Len(tasks) :
            tasks[n].priority = (tasks[n].payload.similarity * 100) \div 1000

\* C20: every entity candidate with similarity s is enqueued with priority
\* round(s * 100) (the event candidates' min(100, n * 10) is
\* C20_EventPriority).
C20_EntityPriorityRounded ==
    gen.op = "entity" =>
        \A n \in 1..Len(tasks) : tasks[n].priority = RoundPercent(tasks[n].payload.similarity)

----------------------------------------------------------------------------
(* Candidate generation for events (review_ops.py:180-236)                  *)

MaxEvents == 3    \* events the store may hold

\* store.export_abstract_map_json() as the generator reads it: one item
\* (event_id, abstract, time, entities) per event, in the order the store
\* lists them; every entity is a non-blank string
EventItem(id) ==
    [event_id |-> id, abstract |-> events[id].abstract,
     time |-> Some(events[id].first_seen), ents |-> events[id].entities]

export_abstract_map_json(order) == [i \in 1..Len(order) |-> EventItem(order[i])]

\* the keys of ent_buckets in insertion order: item by item, the entities
\* of set(ents) not met before, in the order the set is iterated (rank)
NewEntities(items, i, rank) ==
    SelectSeq(rank, LAMBDA e : /\ e \in items[i].ents
                               /\ \A h \in 1..(i - 1) : e \notin items[h].ents)

BucketEntities(items, rank) == Concat([i \in 1..Len(items) |-> NewEntities(items, i, rank)])

\* ent_buckets[e]: the indices of the items that name e, ascending
Indices(items) == [i \in 1..Len(items) |-> i]

ent_bucket(items, e) == SelectSeq(Indices(items), LAMBDA i : e \in items[i].ents)

\* the keys of pair_scores in insertion order
ScoredKeys(items, buckets) ==
    Uniq(Concat([n \in 1..Len(buckets) |-> PairsOf(ent_bucket(items, buckets[n]))]))

\* pair_scores[key]: one for every bucket that holds both items
pair_score(items, key) == Cardinality(items[key[1]].ents \cap items[key[2]].ents)

\* a list left in the order the pairs were found
sorted_as_found(items, keys) == keys

\* sorted(pair_scores.items(), key=score, reverse=True): by score descending,
\* pairs of one score in the order they were found
sorted_by_score(items, keys) ==
    Concat([k \in 1..Cardinality(GenNames) |->
               SelectSeq(keys, LAMBDA key :
                   pair_score(items, key) = Cardinality(GenNames) + 1 - k)])

EventRefOf(item) == EventRef(item.event_id, item.abstract, item.time)

EventCall(items, key) ==
    EventCandidate(EventRefOf(items[key[1]]), EventRefOf(items[key[2]]), pair_score(items, key))

\* the final loop over the first max_pairs sorted pairs, skipping those
\* below shared_entity_min
EventCalls(items, candidates) ==
    [n \in 1..Len(candidates) |-> EventCall(items, candidates[n])]

KeptCandidates(items, candidates, shared_entity_min) ==
    SelectSeq(candidates, LAMBDA key : pair_score(items, key) >= shared_entity_min)

EventResult(items, keys, max_pairs, shared_entity_min) ==
    [pairs_scored |-> Len(keys),
     calls |-> EventCalls(items,
                          KeptCandidates(items, Take(sorted_by_score(items, keys), max_pairs),
                                         shared_entity_min))]

enqueue_event_merge_or_evolve_candidates(items, rank, max_pairs, shared_entity_min) ==
    EventResult(items, ScoredKeys(items, BucketEntities(items, rank)), max_pairs,
                shared_entity_min)

SharedMins == {2, 3}

\* two of the orders in which set(ents) may be iterated
RankChoices == { <<NameA, NameB, NameC>>, <<NameC, NameB, NameA>> }

EventGenEffects(items, max_pairs, shared_entity_min, r) ==
    /\ tasks' = EnqueueCalls(tasks, r.calls)
    /\ hist' = [i \in 1..Len(tasks') |-> 0]
    /\ gen' = [op |-> "event", items |-> items, max_pairs |-> max_pairs,
               shared_entity_min |-> shared_entity_min, calls |-> r.calls]
    /\ ret' = [op |-> "enqueue_event", n |-> Len(r.calls), pairs_scored |-> r.pairs_scored]

EventGenRun(items, rank, max_pairs, shared_entity_min) ==
    EventGenEffects(items, max_pairs, shared_entity_min,
                    enqueue_event_merge_or_evolve_candidates(items, rank, max_pairs,
                                                             shared_entity_min))

\* enqueue_event_merge_or_evolve_candidates(max_pairs, shared_entity_min),
\* on an empty queue
EnqueueEventCandidates(order, rank, max_pairs, shared_entity_min) ==
    /\ tasks = <<>>
    /\ EventGenRun(export_abstract_map_json(order), rank, max_pairs, shared_entity_min)
    /\ UNCHANGED <<decisions, now, worker, graphVars, llmVars, dedupVars>>

\* the stores the generator is run on: the first events of EventTable, each
\* naming some of three entities
EntitySets == { {NameA, NameB, NameC}, {NameA, NameB}, {NameB, NameC} }

EventStore(ids, ents) ==
    [id \in ids |-> Event(AbstractTable[IndexIn(EventTable, id)], 1, ents[id])]

EventStores ==
    UNION { {EventStore({EventTable[i] : i \in 1..k}, ents) :
                 ents \in [{EventTable[i] : i \in 1..k} -> EntitySets]} :
              k \in 0..Min(MaxEvents, Len(EventTable)) }

InitEventGen ==
    /\ InitQueueDecided(<<>>, <<>>)
    /\ entities = <<>>
    /\ relations = <<>>
    /\ participants = <<>>
    /\ events \in EventStores
    /\ event_edges = <<>>
    /\ applied = [a \in Appliers |-> IdleApplier]

\* one run of the generator on each store
NextEventGen ==
    /\ gen.op = "none"
    /\ \E m \in PairLimits, s \in SharedMins, rank \in RankChoices :
          \E order \in Orderings(DOMAIN events) : EnqueueEventCandidates(order, rank, m, s)

SpecEventGen == InitEventGen /\ [][NextEventGen]_vars

\* the position of an event in the exported items
ItemOf(id) == CHOOSE i \in 1..Len(gen.items) : gen.items[i].event_id = id

\* the number of distinct entities two exported events share
SharedBy(i, j) == Cardinality(gen.items[i].ents \cap gen.items[j].ents)

ItemPairs == {p \in SUBSET (1..Len(gen.items)) : Cardinality(p) = 2}

ScoreOf(p) == Cardinality({e \in GenNames : \A i \in p : e \in gen.items[i].ents})

\* the unordered pair of items an enqueue call is about
PairOfCall(c) == {ItemOf(c.payload.event_a.event_id), ItemOf(c.payload.event_b.event_id)}

EnqueuedItemPairs == {PairOfCall(gen.calls[n]) : n \in 1..Len(gen.calls)}

C19_LimitCuts ==
    /\ gen.op = "event"
    /\ \E p \in ItemPairs \ EnqueuedItemPairs : ScoreOf(p) >= gen.shared_entity_min

\* What the generator guarantees for priorities: an event candidate sharing n
\* entities is enqueued with priority min(100, n * 10).
C20_EventPriority ==
    gen.op = "event" =>
        \A n \in 1..Len(tasks) :
            tasks[n].priority = Min(100, tasks[n].payload.shared_entities * 10)

----------------------------------------------------------------------------
(* The order of the worker's two writes (review_ops.py:295-296) *)

\* C30: whenever a review task is done, merge_decisions holds a decision
\* with the task's input_hash: the worker records the decision before it
\* completes the task, so a kill between the two writes never leaves a done
\* task without a decision.
C30_DoneHasDecision ==
    \A i \in TaskIds : tasks[i].status = DONE => HasDecision(tasks[i].input_hash)

\* a worker was killed between the two writes: its task is still running and
\* its decision is recorded
C30_Witness ==
    \E w \in Workers :
        /\ worker[w].pc = "crashed"
        /\ worker[w].out # EmptyObject
        /\ tasks[worker[w].task_id].status = RUNNING
        /\ HasDecision(tasks[worker[w].task_id].input_hash)

----------------------------------------------------------------------------
(* The half-open breaker (infra/common.py:474-491)                          *)

\* C25: while the breaker is half open, can_call() has admitted at most
\* half_open_max_calls calls since a success or a failure was last recorded.
C25_HalfOpenLimit ==
    breaker.state = HALF_OPEN => bcall.admitted <= breaker.half_open_max_calls

----------------------------------------------------------------------------
(* Threads on one TokenBucketRateLimiter (infra/common.py:381-420)          *)

Rates == {1, 2}
BurstSizes == {3}

InitLimiter ==
    /\ InitStore
    /\ breaker = SimpleCircuitBreaker(1, 1, 1)
    /\ clock = 1
    /\ bcall = NoOp
    /\ \E rate \in Rates :
          \/ limiter = TokenBucketRateLimiter(rate, 1)
          \/ \E burst_size \in BurstSizes : limiter = BurstLimiter(rate, burst_size, 1)
    /\ caller = [c \in Callers |-> IdleCaller]
    /\ net = 0
    /\ threads = NoThreads
    /\ InitDedup
    /\ InitGen

NextLimiter ==
    \/ \E t \in Threads, tokens \in TokenCounts : ThreadCall(t, "acquire", tokens)
    \/ \E t \in Threads, tokens \in TokenCounts : ThreadCall(t, "try_acquire", tokens)
    \/ \E t \in Threads : ThreadLock(t)
    \/ \E t \in Threads : ThreadBody(t)
    \/ \E t \in Threads : ThreadWake(t)
    \/ ClockTick

SpecLimiter == InitLimiter /\ [][NextLimiter]_vars

\* the thread's call returns in this step
Returns(t) == threads.of[t].pc = "body" /\ threads'.of[t].pc = "idle"

\* tokens handed out to all threads so far
TotalGranted == SumOver([t \in Threads |-> threads.of[t].granted], Threads)

\* the bucket never holds less than nothing or more than burst_size
C24_Within == limiter.tokens >= 0 /\ limiter.tokens <= limiter.burst_size

\* what was handed out and what is left never exceeds the first burst plus
\* the refill since
C24_Conserved ==
    TotalGranted + limiter.tokens
        <= limiter.burst_size + limiter.rate * (clock - 1)

\* whoever holds the lock is inside a locked section, never asleep
C24_LockHeldBriefly ==
    threads.lock # "free" => threads.of[threads.lock].pc = "body"

\* a permit takes the requested tokens out of the refilled bucket, and a
\* try_acquire that returns False leaves the refilled bucket as it is
C24_Step ==
    \A t \in Threads :
        Returns(t) =>
            /\ threads'.lock = "free"
            /\ IF threads'.of[t].result
                   THEN /\ _refill(limiter, clock).tokens >= threads.of[t].tokens
                        /\ limiter'.tokens
                              = _refill(limiter, clock).tokens - threads.of[t].tokens
                        /\ threads'.of[t].granted
                              = threads.of[t].granted + threads.of[t].tokens
                   ELSE /\ threads.of[t].op = "try_acquire"
                        /\ limiter'.tokens = _refill(limiter, clock).tokens
                        /\ threads'.of[t].granted = threads.of[t].granted

\* C24: under any interleaving of acquire and try_acquire on one limiter the
\* token count stays within 0..burst_size, a permit is granted only by
\* removing the requested tokens, and try_acquire never waits for a sleeping
\* thread and leaves the count as refilled when it returns False.
C24_Limiter ==
    /\ [](C24_Within /\ C24_Conserved /\ C24_LockHeldBriefly)
    /\ [][C24_Step]_vars

\* a thread that was granted tokens has its next try_acquire refused while
\* the other thread sleeps inside acquire
C24_Witness ==
    \E t \in Threads :
        /\ threads.of[t].granted > 0
        /\ threads.of[t].op = "try_acquire"
        /\ threads.of[t].pc = "idle"
        /\ ~threads.of[t].result
        /\ \E u \in Threads \ {t} : threads.of[u].pc = "sleep"

----------------------------------------------------------------------------
(* Specification: apply_event_merge_or_evolve_decisions (review_ops.py:     *)
(* 398-489) called again and again with one max_actions over a decision log *)
(* in any order                                                             *)

\* EventEdgeType (models.py:200-206)
EventEdgeType == {"follows", "responds_to", "escalates", "causes", "related"}

\* the three decided pairs: (Ev1, Ev2), (Ev3, Ev1) with the later event
\* first, and (Ev2, Ev4) without times
ApplyCandidates ==
    << EventCandidate(PayloadTable[3].event_a, PayloadTable[3].event_b, 2),
       EventCandidate(EventRef(Ev3, "a3", Some(3)), EventRef(Ev1, "a1", Some(1)), 2),
       EventCandidate(PayloadTable[5].event_a, PayloadTable[5].event_b, 2) >>

InitApply ==
    /\ \E o1 \in { EventOut("merge", Absent, "a2"), EventOut("evolve", "escalates", "") },
          o2 \in { EventOut("evolve", "contradicts", ""), EventOut("evolve", "follows", "") },
          order \in Orderings({1, 2, 3}) :
          LET out == <<o1, o2, EventOut("evolve", "causes", "")>>
          IN  InitQueueDecided(
                  [i \in 1..3 |-> DoneTask(ApplyCandidates[i], out[i])],
                  [i \in 1..3 |-> Decided(ApplyCandidates[order[i]], out[order[i]])])
    /\ entities = (IdA :> Entity(NameA, 1, <<SrcWire>>, <<NameA>>, {})
                   @@ IdB :> Entity(NameB, 1, <<SrcBlog>>, <<NameB>>, {}))
    /\ relations = <<>>
    /\ participants = <<>>
    /\ events = (Ev1 :> Event("a1", 1, {NameA, NameB})
                 @@ Ev2 :> Event("a2", 2, {NameA, NameB})
                 @@ Ev3 :> Event("a3", 3, {NameA, NameB})
                 @@ Ev4 :> Event("a4", 2, {NameA, NameB}))
    /\ event_edges = <<>>
    /\ applied = [a \in Appliers |-> IdleApplier]

\* the first call, with any max_actions
ApplyFirst ==
    /\ applied["p1"].pc = "idle"
    /\ \E m \in ActionLimits : ApplierStart("p1", EVENT_MERGE_OR_EVOLVE_REVIEW, m)

\* the next call, with the same max_actions
ApplyAgain ==
    /\ applied["p1"].pc = "returned"
    /\ ApplierStart("p1", EVENT_MERGE_OR_EVOLVE_REVIEW, applied["p1"].max_actions)

ApplyStep ==
    \/ ApplyFirst
    \/ ApplyAgain
    \/ ApplyEventDecision("p1")
    \/ ApplierReturn("p1")

NextApply ==
    \/ ApplyStep
    \/ applied["p1"].pc = "run" /\ Tick

SpecApply == InitApply /\ [][NextApply]_vars

\* the scheduler keeps calling and every call runs to its return
SpecApplyLive == SpecApply /\ WF_vars(ApplyStep)

\* the payload of the review task a decision belongs to
PayloadOf(input_hash) ==
    tasks[CHOOSE i \in TaskIds : tasks[i].input_hash = input_hash].payload

\* C23: every row of event_edges written by the applier has an edge_type out
\* of follows, responds_to, escalates, causes, related, whatever the decision
\* carried.
C23_EdgeTypeListed ==
    \A i \in 1..Len(event_edges) : event_edges[i].edge_type \in EventEdgeType

\* the earlier of two times of which at least one is there
Earlier(ta, tb) ==
    IF ta = None THEN tb
    ELSE IF tb = None THEN ta
    ELSE IF ta[1] <= tb[1] THEN ta ELSE tb

\* the row carries event A's time when A has one, else B's, else the time
\* of writing
C26_FirstTime ==
    \A i \in 1..Len(event_edges) :
        LET p == PayloadOf(event_edges[i].decision_input_hash)
        IN  event_edges[i].time =
                IF p.event_a.time # None THEN p.event_a.time
                ELSE IF p.event_b.time # None THEN p.event_b.time
                ELSE event_edges[i].reported_at

\* C26: the time on an event edge written for an evolve decision is the
\* earlier of the two events' times, and the time of writing only when
\* neither event has a time.
C26_EarlierTime ==
    \A i \in 1..Len(event_edges) :
        LET p == PayloadOf(event_edges[i].decision_input_hash)
        IN  event_edges[i].time =
                IF p.event_a.time = None /\ p.event_b.time = None
                    THEN event_edges[i].reported_at
                ELSE Earlier(p.event_a.time, p.event_b.time)

\* a stored decision has taken effect: its edge is in event_edges, or one
\* of its two events has been merged away
Applied(d) ==
    IF DecisionOf(d.output) = "evolve"
        THEN \E i \in 1..Len(event_edges) :
                event_edges[i].decision_input_hash = d.input_hash
    ELSE IF DecisionOf(d.output) = "merge"
        THEN \/ PayloadOf(d.input_hash).event_a.event_id \notin DOMAIN events
             \/ PayloadOf(d.input_hash).event_b.event_id \notin DOMAIN events
    ELSE TRUE

\* C27: repeated calls of apply_event_merge_or_evolve_decisions with one
\* max_actions eventually apply every stored merge or evolve decision.
C27_AllApplied == <>(\A i \in 1..Len(decisions) : Applied(decisions[i]))

\* C28: both ends of every row of event_edges are events that still exist.
C28_NoDanglingEdge ==
    \A i \in 1..Len(event_edges) :
        /\ event_edges[i].from_event_id \in DOMAIN events
        /\ event_edges[i].to_event_id \in DOMAIN events

----------------------------------------------------------------------------
(* SnapshotService (app/snapshot_service.py): the EE and the EE_EVO view    *)
(* over the rows of entities and relations.  A time is a whole day: the ISO *)
(* texts of one format order as their days do.  Evidence lists are left     *)
(* out.                                                                     *)

MaxRels == 3     \* rows of the relations table
FirstDay == 5    \* the day of the first build

\* SnapshotParams
SnapshotParams(top_entities, top_events, max_edges, days_window, gap_days) ==
    [top_entities |-> top_entities, top_events |-> top_events,
     max_edges |-> max_edges, days_window |-> days_window, gap_days |-> gap_days]

\* _filter_by_days_window(ts, days_window) called on day today
_filter_by_days_window(ts, days_window, today) ==
    IF days_window <= 0 THEN TRUE ELSE ts >= today - days_window

\* entid_to_name.get(str(id), "")
entid_to_name(id) == IF id \in DOMAIN entities THEN entities[id].name ELSE <<>>

\* t = str(r.get("time") or "").strip() or _utc_now_iso()
rel_time(r, today) == IF r.time = None THEN today ELSE r.time[1]

SnapTriple(r, today) ==
    [s |-> entid_to_name(r.subject_entity_id), p |-> r.predicate,
     o |-> entid_to_name(r.object_entity_id), t |-> rel_time(r, today)]

\* the rows that get past both `continue`
KeptTriples(rels, params, today) ==
    SelectSeq([i \in 1..Len(rels) |-> SnapTriple(rels[i], today)],
              LAMBDA x : /\ x.s # <<>> /\ x.o # <<>> /\ x.p # ""
                         /\ _filter_by_days_window(x.t, params.days_window, today))

TripleKey(x) == <<x.s, x.p, x.o>>

\* the keys of groups (of agg), in the order they were first set
GroupKeysOf(kept) == Uniq([i \in 1..Len(kept) |-> TripleKey(kept[i])])

\* the times of one group, in row order
TimesOf(rows) == [i \in 1..Len(rows) |-> rows[i].t]
GroupTimes(kept, key) == TimesOf(SelectSeq(kept, LAMBDA x : TripleKey(x) = key))

\* sorted(seq, key=lambda x: x[0])
sorted_by_time(seq) == SortSeq(seq, LAMBDA a, b : a < b)

\* if last_dt and dt and (dt - last_dt) > gap and cur: the interval is closed
\* and t opens the next one; else t joins the current interval
AddToIntervals(intervals, last_dt, t, gap) ==
    IF t - last_dt > gap THEN Append(intervals, <<t>>)
    ELSE [intervals EXCEPT ![Len(intervals)] = Append(@, t)]

\* the loop over seq2
RECURSIVE Intervals(_, _)
Intervals(seq2, gap) ==
    IF Len(seq2) = 0 THEN <<>>
    ELSE IF Len(seq2) = 1 THEN << seq2 >>
    ELSE AddToIntervals(Intervals(SubSeq(seq2, 1, Len(seq2) - 1), gap),
                        seq2[Len(seq2) - 1], seq2[Len(seq2)], gap)

\* node ids: an entity's name, or f"REL:{s}|{p}|{o}|{idx}"
EntId(name) == [kind |-> "entity", s |-> name, p |-> "", o |-> <<>>, idx |-> 0]
RelId(key, idx) == [kind |-> "REL", s |-> key[1], p |-> key[2], o |-> key[3], idx |-> idx]

EntityNode(name) ==
    [id |-> EntId(name), type |-> "entity", time |-> None,
     valid_from |-> None, valid_to |-> None]

\* the relation_state node of the idx-th interval
RelNode(key, idx, itv) ==
    [id |-> RelId(key, idx), type |-> "relation_state", time |-> Some(itv[1]),
     valid_from |-> Some(itv[1]), valid_to |-> Some(itv[Len(itv)])]

ViewEdge(from, to, type, title, time, last_seen) ==
    [from |-> from, to |-> to, type |-> type, title |-> title, time |-> time,
     last_seen |-> last_seen]

\* nodes.setdefault(s), nodes.setdefault(o), then one node per interval
EvoGroupNodes(key, itvs) ==
    <<EntityNode(key[1]), EntityNode(key[3])>>
        \o [i \in 1..Len(itvs) |-> RelNode(key, i - 1, itvs[i])]

\* the rel_in and the rel_out edge of every interval
EvoGroupEdges(key, itvs) ==
    Concat([i \in 1..Len(itvs) |->
               << ViewEdge(EntId(key[1]), RelId(key, i - 1), "rel_in", "rel",
                           Some(itvs[i][1]), None),
                  ViewEdge(RelId(key, i - 1), EntId(key[3]), "rel_out", "rel",
                           Some(itvs[i][1]), None) >>])

GroupIntervals(kept, key, gap) == Intervals(sorted_by_time(GroupTimes(kept, key)), gap)

\* build_ee_evo before the return: the locals nodes and edges
EvoBuilt(kept, keys, gap) ==
    [nodes |-> Uniq(Concat([k \in 1..Len(keys) |->
                   EvoGroupNodes(keys[k], GroupIntervals(kept, keys[k], gap))])),
     edges |-> Concat([k \in 1..Len(keys) |->
                   EvoGroupEdges(keys[k], GroupIntervals(kept, keys[k], gap))])]

ee_evo_locals(rels, params, today) ==
    EvoBuilt(KeptTriples(rels, params, today),
             GroupKeysOf(KeptTriples(rels, params, today)), params.gap_days)

\* "nodes": list(nodes.values())[: top_entities + top_events],
\* "edges": edges[: max_edges]
EvoReturned(built, params) ==
    [nodes |-> Take(built.nodes, params.top_entities + params.top_events),
     edges |-> Take(built.edges, params.max_edges)]

build_ee_evo(rels, params, today) ==
    EvoReturned(ee_evo_locals(rels, params, today), params)

\* time_first and time_last of one key of agg
MinOf(seq) == CHOOSE t \in Range(seq) : \A u \in Range(seq) : t <= u
MaxOf(seq) == CHOOSE t \in Range(seq) : \A u \in Range(seq) : t >= u

\* build_ee: one edge per key of agg
AggEdge(kept, key) ==
    ViewEdge(EntId(key[1]), EntId(key[3]), "relation", key[2],
             Some(MinOf(GroupTimes(kept, key))), Some(MaxOf(GroupTimes(kept, key))))

AggEdges(kept, keys) == [k \in 1..Len(keys) |-> AggEdge(kept, keys[k])]
AggNodes(keys) ==
    Uniq(Concat([k \in 1..Len(keys) |-> <<EntityNode(keys[k][1]), EntityNode(keys[k][3])>>]))

\* deg: its keys in the order they were first set, and its counts
DegKeys(edges) == Uniq(Concat([i \in 1..Len(edges) |-> <<edges[i].from, edges[i].to>>]))
deg(edges, id) ==
    Len(SelectSeq(edges, LAMBDA e : e.from = id))
        + Len(SelectSeq(edges, LAMBDA e : e.to = id))

\* sorted(deg, key=deg.get, reverse=True): highest degree first, keys of one
\* degree in the order of the dict
sorted_by_deg(edges, keys) ==
    Concat([k \in 1..(2 * Len(edges)) |->
               SelectSeq(keys, LAMBDA id : deg(edges, id) = 2 * Len(edges) + 1 - k)])

\* top = set(sorted(...)[: n])
TopOf(edges, n) == Range(Take(sorted_by_deg(edges, DegKeys(edges)), n))

\* edges2 and nodes2
EeReturned(nodes, edges, top, params) ==
    [nodes |-> SelectSeq(nodes, LAMBDA v : v.id \in top),
     edges |-> Take(SelectSeq(edges, LAMBDA e : e.from \in top /\ e.to \in top),
                    params.max_edges)]

EeBuilt(kept, keys, params) ==
    EeReturned(AggNodes(keys), AggEdges(kept, keys),
               TopOf(AggEdges(kept, keys), params.top_entities), params)

build_ee(rels, params, today) ==
    EeBuilt(KeptTriples(rels, params, today),
            GroupKeysOf(KeptTriples(rels, params, today)), params)

Views == {"EE", "EE_EVO"}

build(view, rels, params, today) ==
    IF view = "EE" THEN build_ee(rels, params, today)
    ELSE build_ee_evo(rels, params, today)

\* a view is built from the rows of the store
SnapshotBuild(view, params) ==
    /\ gen.op = "none"
    /\ gen' = [op |-> "snapshot", view |-> view, params |-> params, at |-> now,
               out |-> build(view, relations, params, now), before |-> <<>>]
    /\ UNCHANGED <<queueVars, graphVars, llmVars, dedupVars>>

\* the same view is built once more from the same rows with the same
\* parameters; the first result is kept for comparison
SnapshotAgain ==
    /\ gen.op = "snapshot"
    /\ gen.before = <<>>
    /\ gen' = [gen EXCEPT !.at = now,
                          !.out = build(gen.view, relations, gen.params, now),
                          !.before = <<gen.out>>]
    /\ UNCHANGED <<queueVars, graphVars, llmVars, dedupVars>>

\* a day passes between two builds
DayPasses ==
    /\ now < FirstDay + MaxTime
    /\ now' = now + 1
    /\ UNCHANGED <<tasks, decisions, worker, hist, ret>>
    /\ UNCHANGED <<graphVars, extVars>>

TopEntities == {1, 3}
TopEvents == {0, 2}
EdgeLimits == {1, 4}
DaysWindows == {0, 1}
GapDays == {1}

ParamChoices ==
    { SnapshotParams(te, tv, me, dw, gd) :
        te \in TopEntities, tv \in TopEvents, me \in EdgeLimits,
        dw \in DaysWindows, gd \in GapDays }

\* rows of relations: one pair seen on days 1, 2 and 4 and once without a
\* time, and a second pair
RelRows ==
    { RelationTriple(Ev1, IdA, "acquires", IdB, t) : t \in {None, Some(1), Some(2), Some(4)} }
        \cup { RelationTriple(Ev2, IdB, "sues", IdC, Some(4)) }

InitSnapshot ==
    /\ tasks = <<>>
    /\ decisions = <<>>
    /\ now = FirstDay
    /\ worker = [w \in Workers |-> IdleWorker]
    /\ hist = <<>>
    /\ ret = NoRet
    /\ InitExt
    /\ entities = (IdA :> Entity(NameA, 1, <<SrcWire>>, <<NameA>>, {})
                   @@ IdB :> Entity(NameB, 1, <<SrcBlog>>, <<NameB>>, {})
                   @@ IdC :> Entity(NameC, 2, <<SrcBlog>>, <<NameC>>, {}))
    /\ relations \in UNION { [1..n -> RelRows] : n \in 0..MaxRels }
    /\ participants = <<>>
    /\ events = <<>>
    /\ event_edges = <<>>
    /\ applied = [a \in Appliers |-> IdleApplier]

NextSnapshot ==
    \/ \E view \in Views, params \in ParamChoices : SnapshotBuild(view, params)
    \/ SnapshotAgain
    \/ DayPasses

SpecSnapshot == InitSnapshot /\ [][NextSnapshot]_vars

Built(view) == gen.op = "snapshot" /\ gen.view = view

NodeIds(view_out) == {view_out.nodes[i].id : i \in 1..Len(view_out.nodes)}

\* every edge of the EE view runs between two nodes of the view
C29_EeEdgesInNodes ==
    Built("EE") =>
        \A i \in 1..Len(gen.out.edges) :
            /\ gen.out.edges[i].from \in NodeIds(gen.out)
            /\ gen.out.edges[i].to \in NodeIds(gen.out)

\* C29: in every snapshot view, whatever top_entities, top_events and
\* max_edges are, both ends of every edge are ids of nodes of the same view.
C29_EdgesInNodes ==
    gen.op = "snapshot" =>
        \A i \in 1..Len(gen.out.edges) :
            /\ gen.out.edges[i].from \in NodeIds(gen.out)
            /\ gen.out.edges[i].to \in NodeIds(gen.out)

\* no row lacks a time and no window is set
Timed == gen.params.days_window = 0 /\ \A i \in 1..Len(relations) : relations[i].time # None

\* two builds from rows that all have a time, without a window, are equal
C22_TimedDeterministic ==
    (gen.op = "snapshot" /\ gen.before # <<>> /\ Timed) => gen.before[1] = gen.out

\* C22: a view built twice from the same rows with the same parameters has
\* the same nodes and edges both times, also when rows lack a time or
\* days_window > 0.
C22_Deterministic ==
    (gen.op = "snapshot" /\ gen.before # <<>>) => gen.before[1] = gen.out

\* the intervals of a set of times as the partition is described: runs of
\* times in which each time but the last has a next one at most gap days
\* later, with more than gap days before the first and after the last
IsRun(times, lo, hi, gap) ==
    /\ lo <= hi
    /\ \A t \in times : (lo <= t /\ t < hi) => \E u \in times : t < u /\ u <= t + gap
    /\ ~\E u \in times : u < lo /\ lo - u <= gap
    /\ ~\E u \in times : hi < u /\ u - hi <= gap

Runs(times, gap) == {r \in times \X times : IsRun(times, r[1], r[2], gap)}

\* the relation_state nodes of one (subject, predicate, object) in a view
StatesOf(v, key) ==
    {i \in 1..Len(v.nodes) :
        /\ v.nodes[i].type = "relation_state"
        /\ <<v.nodes[i].id.s, v.nodes[i].id.p, v.nodes[i].id.o>> = key}

EdgesBetween(v, from, to) ==
    {i \in 1..Len(v.edges) : v.edges[i].from = from /\ v.edges[i].to = to}

\* one node per interval with the interval's first and last day, and one
\* edge into it from the subject and one out of it to the object
IntervalsShown(v, kept, gap) ==
    \A key \in Range(GroupKeysOf(kept)) :
        /\ {<<v.nodes[i].valid_from[1], v.nodes[i].valid_to[1]>> : i \in StatesOf(v, key)}
              = Runs(Range(GroupTimes(kept, key)), gap)
        /\ Cardinality(StatesOf(v, key))
              = Cardinality(Runs(Range(GroupTimes(kept, key)), gap))
        /\ \A i \in StatesOf(v, key) :
              /\ v.nodes[i].valid_from[1] <= v.nodes[i].valid_to[1]
              /\ Cardinality(EdgesBetween(v, EntId(key[1]), v.nodes[i].id)) = 1
              /\ Cardinality(EdgesBetween(v, v.nodes[i].id, EntId(key[3]))) = 1

\* the nodes and edges build_ee_evo has collected before it returns show
\* every interval
C21_CollectedIntervals ==
    Built("EE_EVO") =>
        IntervalsShown(ee_evo_locals(relations, gen.params, gen.at),
                       KeptTriples(relations, gen.params, gen.at), gen.params.gap_days)

\* C21: the EE_EVO view splits the time-sorted triples of every (subject,
\* predicate, object) into intervals at the gaps of more than gap_days, and
\* shows each interval as one relation_state node with valid_from the
\* earliest and valid_to the latest time, linked by one edge from the subject
\* and one edge to the object.
C21_Intervals ==
    Built("EE_EVO") =>
        IntervalsShown(gen.out, KeptTriples(relations, gen.params, gen.at),
                       gen.params.gap_days)

====
